---- MODULE Spec2Model ----
(***************************************************************************)
(* Latin for Fun - Birding Quest (src/src/App.tsx): the round engine of    *)
(* the two game modes (Match, Sighting Log), the challenge generator, the  *)
(* answer validator, the scoring rule and the progression update.          *)
(*                                                                         *)
(* Strings whose content the code inspects or concatenates (Latin forms,   *)
(* lexical ids, tile ids) are sequences of one-character strings, so that  *)
(* join(" ") and template literals are computed as the code computes them. *)
(* Display-only strings (meanings, names) are plain strings.               *)
(***************************************************************************)
EXTENDS Integers, Sequences, FiniteSets, TLC

\* ------------------------------------------------------------------ bounds

\* Rounds one game instance creates in a behaviour (the first one included).
MaxRounds == 2

\* The player acts during the last ActiveSeconds seconds of a round (and
\* presses Next whenever it is shown).
ActiveSeconds == 1

\* ----------------------------------------------------------------- helpers

Range(f) == {f[i] : i \in DOMAIN f}

Max(a, b) == IF a >= b THEN a ELSE b

Min(a, b) == IF a <= b THEN a ELSE b

\* clamp(n, a, b) = Math.max(a, Math.min(b, n))
clamp(n, a, b) == Max(a, Min(b, n))

\* popLast emptying the array.
popLastAll(arr) == SubSeq(arr, 1, 0)

\* popLast(arr) = arr.slice(0, Math.max(0, arr.length - 1))
popLast(arr) == SubSeq(arr, 1, Max(0, Len(arr) - 1))

\* The value of a missing property (undefined); like "", it is falsy and is
\* not a non-empty string.
Undefined == <<>>

\* ----------------------------------------------------------------- lexicon

NOUNS ==
  <<
    [id |-> <<"p", "u", "e", "l", "l", "a">>, gender |-> "f", meaning |-> "girl",
     forms |-> [nomSg |-> <<"p", "u", "e", "l", "l", "a">>, accSg |-> <<"p", "u", "e", "l", "l", "a", "m">>]],
    [id |-> <<"f", "e", "m", "i", "n", "a">>, gender |-> "f", meaning |-> "woman",
     forms |-> [nomSg |-> <<"f", "e", "m", "i", "n", "a">>, accSg |-> <<"f", "e", "m", "i", "n", "a", "m">>]],
    [id |-> <<"n", "a", "u", "t", "a">>, gender |-> "m", meaning |-> "sailor",
     forms |-> [nomSg |-> <<"n", "a", "u", "t", "a">>, accSg |-> <<"n", "a", "u", "t", "a", "m">>]],
    [id |-> <<"a", "q", "u", "a">>, gender |-> "f", meaning |-> "water",
     forms |-> [nomSg |-> <<"a", "q", "u", "a">>, accSg |-> <<"a", "q", "u", "a", "m">>]],
    [id |-> <<"i", "n", "s", "u", "l", "a">>, gender |-> "f", meaning |-> "island",
     forms |-> [nomSg |-> <<"i", "n", "s", "u", "l", "a">>, accSg |-> <<"i", "n", "s", "u", "l", "a", "m">>]],
    [id |-> <<"s", "i", "l", "v", "a">>, gender |-> "f", meaning |-> "forest",
     forms |-> [nomSg |-> <<"s", "i", "l", "v", "a">>, accSg |-> <<"s", "i", "l", "v", "a", "m">>]],
    [id |-> <<"v", "i", "a">>, gender |-> "f", meaning |-> "road",
     forms |-> [nomSg |-> <<"v", "i", "a">>, accSg |-> <<"v", "i", "a", "m">>]],
    [id |-> <<"p", "o", "r", "t", "a">>, gender |-> "f", meaning |-> "gate",
     forms |-> [nomSg |-> <<"p", "o", "r", "t", "a">>, accSg |-> <<"p", "o", "r", "t", "a", "m">>]],
    [id |-> <<"a", "m", "i", "c", "u", "s">>, gender |-> "m", meaning |-> "friend",
     forms |-> [nomSg |-> <<"a", "m", "i", "c", "u", "s">>, accSg |-> <<"a", "m", "i", "c", "u", "m">>]],
    [id |-> <<"s", "e", "r", "v", "u", "s">>, gender |-> "m", meaning |-> "worker",
     forms |-> [nomSg |-> <<"s", "e", "r", "v", "u", "s">>, accSg |-> <<"s", "e", "r", "v", "u", "m">>]],
    [id |-> <<"l", "u", "p", "u", "s">>, gender |-> "m", meaning |-> "wolf",
     forms |-> [nomSg |-> <<"l", "u", "p", "u", "s">>, accSg |-> <<"l", "u", "p", "u", "m">>]],
    [id |-> <<"f", "i", "l", "i", "u", "s">>, gender |-> "m", meaning |-> "son",
     forms |-> [nomSg |-> <<"f", "i", "l", "i", "u", "s">>, accSg |-> <<"f", "i", "l", "i", "u", "m">>]],
    [id |-> <<"a", "g", "e", "r">>, gender |-> "m", meaning |-> "field",
     forms |-> [nomSg |-> <<"a", "g", "e", "r">>, accSg |-> <<"a", "g", "r", "u", "m">>]],
    [id |-> <<"d", "o", "m", "i", "n", "u", "s">>, gender |-> "m", meaning |-> "master",
     forms |-> [nomSg |-> <<"d", "o", "m", "i", "n", "u", "s">>, accSg |-> <<"d", "o", "m", "i", "n", "u", "m">>]],
    [id |-> <<"v", "e", "r", "b", "u", "m">>, gender |-> "n", meaning |-> "word",
     forms |-> [nomSg |-> <<"v", "e", "r", "b", "u", "m">>, accSg |-> <<"v", "e", "r", "b", "u", "m">>]],
    [id |-> <<"b", "e", "l", "l", "u", "m">>, gender |-> "n", meaning |-> "war",
     forms |-> [nomSg |-> <<"b", "e", "l", "l", "u", "m">>, accSg |-> <<"b", "e", "l", "l", "u", "m">>]],
    [id |-> <<"d", "o", "n", "u", "m">>, gender |-> "n", meaning |-> "gift",
     forms |-> [nomSg |-> <<"d", "o", "n", "u", "m">>, accSg |-> <<"d", "o", "n", "u", "m">>]],
    [id |-> <<"o", "p", "p", "i", "d", "u", "m">>, gender |-> "n", meaning |-> "town",
     forms |-> [nomSg |-> <<"o", "p", "p", "i", "d", "u", "m">>, accSg |-> <<"o", "p", "p", "i", "d", "u", "m">>]],
    [id |-> <<"a", "v", "i", "s">>, gender |-> "f", meaning |-> "bird",
     forms |-> [nomSg |-> <<"a", "v", "i", "s">>, accSg |-> <<"a", "v", "e", "m">>]],
    [id |-> <<"r", "e", "x">>, gender |-> "m", meaning |-> "king",
     forms |-> [nomSg |-> <<"r", "e", "x">>, accSg |-> <<"r", "e", "g", "e", "m">>]]
  >>

VERBS ==
  <<
    [id |-> <<"a", "m", "o">>, meaning |-> "I love", pres3s |-> <<"a", "m", "a", "t">>],
    [id |-> <<"t", "i", "m", "e", "o">>, meaning |-> "I fear", pres3s |-> <<"t", "i", "m", "e", "t">>],
    [id |-> <<"l", "a", "u", "d", "o">>, meaning |-> "I praise", pres3s |-> <<"l", "a", "u", "d", "a", "t">>],
    [id |-> <<"c", "u", "l", "p", "o">>, meaning |-> "I blame", pres3s |-> <<"c", "u", "l", "p", "a", "t">>],
    [id |-> <<"a", "m", "b", "u", "l", "o">>, meaning |-> "I walk", pres3s |-> <<"a", "m", "b", "u", "l", "a", "t">>],
    [id |-> <<"c", "u", "r", "r", "o">>, meaning |-> "I run", pres3s |-> <<"c", "u", "r", "r", "i", "t">>],
    [id |-> <<"v", "e", "n", "i", "o">>, meaning |-> "I come", pres3s |-> <<"v", "e", "n", "i", "t">>],
    [id |-> <<"d", "i", "s", "c", "e", "d", "o">>, meaning |-> "I depart", pres3s |-> <<"d", "i", "s", "c", "e", "d", "i", "t">>],
    [id |-> <<"r", "e", "d", "e", "o">>, meaning |-> "I return", pres3s |-> <<"r", "e", "d", "i", "t">>],
    [id |-> <<"p", "o", "r", "t", "o">>, meaning |-> "I carry", pres3s |-> <<"p", "o", "r", "t", "a", "t">>],
    [id |-> <<"t", "e", "n", "e", "o">>, meaning |-> "I hold", pres3s |-> <<"t", "e", "n", "e", "t">>],
    [id |-> <<"c", "a", "p", "i", "o">>, meaning |-> "I take", pres3s |-> <<"c", "a", "p", "i", "t">>],
    [id |-> <<"d", "o">>, meaning |-> "I give", pres3s |-> <<"d", "a", "t">>],
    [id |-> <<"s", "e", "r", "v", "o">>, meaning |-> "I save / keep", pres3s |-> <<"s", "e", "r", "v", "a", "t">>],
    [id |-> <<"p", "a", "r", "o">>, meaning |-> "I prepare", pres3s |-> <<"p", "a", "r", "a", "t">>],
    [id |-> <<"v", "i", "d", "e", "o">>, meaning |-> "I see", pres3s |-> <<"v", "i", "d", "e", "t">>],
    [id |-> <<"a", "u", "d", "i", "o">>, meaning |-> "I hear", pres3s |-> <<"a", "u", "d", "i", "t">>],
    [id |-> <<"v", "o", "c", "o">>, meaning |-> "I call", pres3s |-> <<"v", "o", "c", "a", "t">>],
    [id |-> <<"s", "p", "e", "c", "t", "o">>, meaning |-> "I watch", pres3s |-> <<"s", "p", "e", "c", "t", "a", "t">>],
    [id |-> <<"n", "a", "r", "r", "o">>, meaning |-> "I tell", pres3s |-> <<"n", "a", "r", "r", "a", "t">>],
    [id |-> <<"h", "a", "b", "i", "t", "o">>, meaning |-> "I live (inhabit)", pres3s |-> <<"h", "a", "b", "i", "t", "a", "t">>],
    [id |-> <<"d", "e", "f", "e", "n", "d", "o">>, meaning |-> "I defend", pres3s |-> <<"d", "e", "f", "e", "n", "d", "i", "t">>]
  >>

ADJECTIVES ==
  <<
    [id |-> <<"b", "o", "n", "u", "s">>, lemma |-> <<"b", "o", "n", "u", "s">>, meaning |-> "good",
     forms |-> [nomSg |-> [m |-> <<"b", "o", "n", "u", "s">>, f |-> <<"b", "o", "n", "a">>, n |-> <<"b", "o", "n", "u", "m">>],
               accSg |-> [m |-> <<"b", "o", "n", "u", "m">>, f |-> <<"b", "o", "n", "a", "m">>, n |-> <<"b", "o", "n", "u", "m">>]]],
    [id |-> <<"m", "a", "g", "n", "u", "s">>, lemma |-> <<"m", "a", "g", "n", "u", "s">>, meaning |-> "big / great",
     forms |-> [nomSg |-> [m |-> <<"m", "a", "g", "n", "u", "s">>, f |-> <<"m", "a", "g", "n", "a">>, n |-> <<"m", "a", "g", "n", "u", "m">>],
               accSg |-> [m |-> <<"m", "a", "g", "n", "u", "m">>, f |-> <<"m", "a", "g", "n", "a", "m">>, n |-> <<"m", "a", "g", "n", "u", "m">>]]],
    [id |-> <<"p", "a", "r", "v", "u", "s">>, lemma |-> <<"p", "a", "r", "v", "u", "s">>, meaning |-> "small",
     forms |-> [nomSg |-> [m |-> <<"p", "a", "r", "v", "u", "s">>, f |-> <<"p", "a", "r", "v", "a">>, n |-> <<"p", "a", "r", "v", "u", "m">>],
               accSg |-> [m |-> <<"p", "a", "r", "v", "u", "m">>, f |-> <<"p", "a", "r", "v", "a", "m">>, n |-> <<"p", "a", "r", "v", "u", "m">>]]],
    [id |-> <<"c", "e", "l", "e", "r">>, lemma |-> <<"c", "e", "l", "e", "r">>, meaning |-> "fast",
     forms |-> [nomSg |-> [m |-> <<"c", "e", "l", "e", "r">>, f |-> <<"c", "e", "l", "e", "r", "i", "s">>, n |-> <<"c", "e", "l", "e", "r">>],
               accSg |-> [m |-> <<"c", "e", "l", "e", "r", "e", "m">>, f |-> <<"c", "e", "l", "e", "r", "e", "m">>, n |-> <<"c", "e", "l", "e", "r">>]]]
  >>

GramCases == {"nomSg", "accSg"}

\* noun.forms?.[gramCase]
nounForm(noun, gramCase) ==
  IF gramCase \in DOMAIN noun.forms THEN noun.forms[gramCase] ELSE Undefined

\* adjForm taking the masculine form whatever the gender.
adjFormMasculine(adj, gramCase, gender) ==
  IF gramCase \in DOMAIN adj.forms /\ "m" \in DOMAIN adj.forms[gramCase]
  THEN adj.forms[gramCase]["m"]
  ELSE Undefined

\* adj.forms?.[gramCase]?.[gender]
adjForm(adj, gramCase, gender) ==
  IF gramCase \in DOMAIN adj.forms /\ gender \in DOMAIN adj.forms[gramCase]
  THEN adj.forms[gramCase][gender]
  ELSE Undefined

\* ------------------------------------------------------------- game logic

\* xpMult is kept in hundredths (0.85, 1, 1.2).
DIFFICULTY ==
  [easy   |-> [time |-> 28, roundSize |-> 4, xpMult |-> 85,  sentenceLen |-> 3],
   normal |-> [time |-> 22, roundSize |-> 5, xpMult |-> 100, sentenceLen |-> 3],
   hard   |-> [time |-> 18, roundSize |-> 6, xpMult |-> 120, sentenceLen |-> 4]]

DifficultyKeys == DOMAIN DIFFICULTY

\* Math.floor(secondsLeft * 1.6)
SpeedRaw(secondsLeft) == (secondsLeft * 16) \div 10

\* Math.round(n * xpMult), xpMult in hundredths: round half up.
RoundMult(n, xpMult) == (n * xpMult + 50) \div 100

\* xpFor with Math.round for Math.floor in the speed bonus.
xpForRoundedSpeed(correct, secondsLeft, combo, difficultyKey) ==
  LET d          == DIFFICULTY[difficultyKey]
      base       == IF correct THEN 28 ELSE 0
      speed      == IF correct THEN clamp((secondsLeft * 16 + 5) \div 10, 0, 45) ELSE 0
      comboBonus == IF correct THEN clamp(combo * 7, 0, 70) ELSE 0
  IN  RoundMult(base + speed + comboBonus, d.xpMult)

xpFor(correct, secondsLeft, combo, difficultyKey) ==
  LET d          == DIFFICULTY[difficultyKey]
      base       == IF correct THEN 28 ELSE 0
      speed      == IF correct THEN clamp(SpeedRaw(secondsLeft), 0, 45) ELSE 0
      comboBonus == IF correct THEN clamp(combo * 7, 0, 70) ELSE 0
  IN  RoundMult(base + speed + comboBonus, d.xpMult)

\* The reward catalog (data/birds): an ordered list of cards, each with an id.
CatalogSize == 4

BIRD_CARDS == [i \in 1..CatalogSize |-> [id |-> i]]

\* BIRD_CARDS.filter(b => !unlocked.includes(b.id))
RemainingBirds(unlocked) ==
  SelectSeq(BIRD_CARDS, LAMBDA b : b.id \notin Range(unlocked))

\* maybeUnlockBird without the test of the target count.
maybeUnlockBirdNoTarget(totalXP, unlocked) ==
  LET remaining == RemainingBirds(unlocked)
  IN  IF remaining = <<>> THEN <<>> ELSE <<remaining[1]>>

\* maybeUnlockBird returning the last remaining card.
maybeUnlockBirdLastRemaining(totalXP, unlocked) ==
  LET targetCount == clamp(totalXP \div 250, 0, Len(BIRD_CARDS))
      remaining   == RemainingBirds(unlocked)
  IN  IF Len(unlocked) >= targetCount THEN <<>>
      ELSE IF remaining = <<>> THEN <<>>
      ELSE <<remaining[Len(remaining)]>>

\* The card to unlock, as a sequence of zero (null) or one card.
maybeUnlockBird(totalXP, unlocked) ==
  LET threshold   == 250
      shouldHave  == totalXP \div threshold
      targetCount == clamp(shouldHave, 0, Len(BIRD_CARDS))
      remaining   == RemainingBirds(unlocked)
  IN  IF Len(unlocked) >= targetCount THEN <<>>
      ELSE IF remaining = <<>> THEN <<>>
      ELSE <<remaining[1]>>

\* --------------------------------------------------------------- storage

\* awardXP unlocking every card that is due, not one.
awardXPAllDue(s, deltaXP, comboMax) ==
  LET totalXP     == s.best.totalXP + deltaXP
      next        == [s EXCEPT !.best = [totalXP    |-> totalXP,
                                         bestStreak |-> Max(s.best.bestStreak, comboMax),
                                         highScore  |-> Max(s.best.highScore, deltaXP)]]
      unlocked    == next.collection.unlocked
      targetCount == clamp(totalXP \div 250, 0, Len(BIRD_CARDS))
      remaining   == RemainingBirds(unlocked)
      due         == Max(0, Min(Len(remaining), targetCount - Len(unlocked)))
  IN  [next EXCEPT !.collection.unlocked = @ \o [i \in 1..due |-> remaining[i].id]]

\* awardXP asking for a card only when the round scored.
awardXPUnlocksOnScore(s, deltaXP, comboMax) ==
  LET totalXP == s.best.totalXP + deltaXP
      next    == [s EXCEPT !.best = [totalXP    |-> totalXP,
                                     bestStreak |-> Max(s.best.bestStreak, comboMax),
                                     highScore  |-> Max(s.best.highScore, deltaXP)]]
      unlock  == IF deltaXP > 0 THEN maybeUnlockBird(totalXP, next.collection.unlocked)
                 ELSE <<>>
  IN  IF unlock # <<>>
      THEN [next EXCEPT !.collection.unlocked = Append(@, unlock[1].id)]
      ELSE next

\* awardXP keeping the last score as the high score.
awardXPLastScore(s, deltaXP, comboMax) ==
  LET totalXP == s.best.totalXP + deltaXP
      next    == [s EXCEPT !.best = [totalXP    |-> totalXP,
                                     bestStreak |-> Max(s.best.bestStreak, comboMax),
                                     highScore  |-> deltaXP]]
      unlock  == maybeUnlockBird(totalXP, next.collection.unlocked)
  IN  IF unlock # <<>>
      THEN [next EXCEPT !.collection.unlocked = Append(@, unlock[1].id)]
      ELSE next

\* The updater of awardXP: the next persisted state.
awardXP(s, deltaXP, comboMax) ==
  LET totalXP    == s.best.totalXP + deltaXP
      bestStreak == Max(s.best.bestStreak, comboMax)
      highScore  == Max(s.best.highScore, deltaXP)
      next       == [s EXCEPT !.best = [totalXP    |-> totalXP,
                                        bestStreak |-> bestStreak,
                                        highScore  |-> highScore]]
      unlock     == maybeUnlockBird(totalXP, next.collection.unlocked)
  IN  IF unlock # <<>>
      THEN [next EXCEPT !.collection.unlocked = Append(@, unlock[1].id)]
      ELSE next

\* ------------------------------------------------------------ persistence

\* JavaScript values, one record shape for each type.
JUndefined == [undefined |-> TRUE]

JNull == [null |-> TRUE]

JBool(b) == [bool |-> b]

JNum(n) == [num |-> n]

JStr(str) == [str |-> str]

JArr(elems) == [arr |-> elems]

\* An object: a function from its own property keys to their values.
JObj(props) == [obj |-> props]

IsA(v, type) == type \in DOMAIN v

\* ToBoolean(v), as `!v` and `v || w` apply it.
Truthy(v) ==
  IF IsA(v, "bool") THEN v.bool
  ELSE IF IsA(v, "num") THEN v.num # 0
  ELSE IF IsA(v, "str") THEN v.str # ""
  ELSE IsA(v, "arr") \/ IsA(v, "obj")

\* The key of an array index or a string index: "0", "1", ...
IndexKey(i) == ToString(i - 1)

\* The own enumerable properties that {...v} copies: those of an object, the
\* elements of an array by index, the characters of a string by index (a
\* character is named by its string and position), none for any other value.
Spread(v) ==
  IF IsA(v, "obj") THEN v.obj
  ELSE IF IsA(v, "arr")
       THEN [k \in {IndexKey(i) : i \in 1..Len(v.arr)} |->
               v.arr[CHOOSE i \in 1..Len(v.arr) : k = IndexKey(i)]]
  ELSE IF IsA(v, "str")
       THEN [k \in {IndexKey(i) : i \in 1..Len(v.str)} |->
               [charAt |-> <<v.str, CHOOSE i \in 1..Len(v.str) : k = IndexKey(i)>>]]
  ELSE <<>>

\* {...a, ...b} on property functions.
Merge(a, b) == [k \in DOMAIN a \cup DOMAIN b |-> IF k \in DOMAIN b THEN b[k] ELSE a[k]]

\* v[key] for a key that is no index and not "length"; v is not null or
\* undefined, on which the access throws.
Get(v, key) ==
  IF IsA(v, "obj") /\ key \in DOMAIN v.obj THEN v.obj[key] ELSE JUndefined

\* a || b
Or(a, b) == IF Truthy(a) THEN a ELSE b

RECURSIVE JsonValue(_)
\* The value JSON.stringify writes for v: a property whose value is undefined
\* is left out, an undefined element of an array is written as null.
JsonValue(v) ==
  IF IsA(v, "obj")
  THEN JObj([k \in {k \in DOMAIN v.obj : v.obj[k] # JUndefined} |-> JsonValue(v.obj[k])])
  ELSE IF IsA(v, "arr")
       THEN JArr([i \in 1..Len(v.arr) |->
                    IF v.arr[i] = JUndefined THEN JNull ELSE JsonValue(v.arr[i])])
  ELSE v

\* A text of localStorage: the JSON text of a value, or a text JSON.parse
\* rejects ("" is one).
JsonText(v) == [json |-> JsonValue(v)]

NotJson(text) == [notJson |-> text]

\* safeJsonParse(s, fallback)
safeJsonParse(s, fallback) == IF IsA(s, "json") THEN s.json ELSE fallback

\* base of loadState
JsBase ==
  JObj([player     |-> JObj([name |-> JStr("Challenger"), difficulty |-> JStr("normal")]),
        best       |-> JObj([highScore |-> JNum(0), bestStreak |-> JNum(0), totalXP |-> JNum(0)]),
        collection |-> JObj([unlocked |-> JArr(<<>>)]),
        settings   |-> JObj([sound |-> JBool(TRUE)])])

SectionKeys == {"player", "best", "collection", "settings"}

\* loadState with {...base, ...parsed} alone, the sections not merged.
loadStateShallow(raw) ==
  IF raw = <<>> \/ raw[1] = NotJson("") THEN [ok |-> JsBase]
  ELSE [ok |-> JObj(Merge(Spread(JsBase), Spread(safeJsonParse(raw[1], JsBase))))]

\* loadState taking the default for every field whose stored value is falsy.
loadStateFalsyDefaults(raw) ==
  IF raw = <<>> \/ raw[1] = NotJson("") THEN [ok |-> JsBase]
  ELSE LET parsed == safeJsonParse(raw[1], JsBase)
           kept(props) == [k \in {k \in DOMAIN props : Truthy(props[k])} |-> props[k]]
           section(key) ==
             JObj(Merge(Spread(Get(JsBase, key)),
                        kept(Spread(Or(Get(parsed, key), JObj(<<>>))))))
       IN  IF parsed = JNull THEN [threw |-> "TypeError"]
           ELSE [ok |-> JObj(Merge(Merge(Spread(JsBase), Spread(parsed)),
                                   [key \in SectionKeys |-> section(key)]))]

\* loadState(), raw being localStorage.getItem(LS_KEY): <<>> for null, or
\* <<text>>.  The outcome is [ok |-> the value returned] or
\* [threw |-> "TypeError"]: parsed.player throws when parsed is null.
loadState(raw) ==
  IF raw = <<>> \/ raw[1] = NotJson("") THEN [ok |-> JsBase]
  ELSE LET parsed == safeJsonParse(raw[1], JsBase)
           section(key) ==
             JObj(Merge(Spread(Get(JsBase, key)), Spread(Or(Get(parsed, key), JObj(<<>>)))))
       IN  IF parsed = JNull THEN [threw |-> "TypeError"]
           ELSE [ok |-> JObj(Merge(Merge(Spread(JsBase), Spread(parsed)),
                                   [key \in SectionKeys |-> section(key)]))]

\* saveState(state): the item of localStorage it sets.
saveState(state) == <<JsonText(state)>>

\* The JavaScript value of a PersistedState, and back; a card id is written
\* as the text of its number.
ToJs(state) ==
  JObj([player     |-> JObj([name       |-> JStr(state.player.name),
                             difficulty |-> JStr(state.player.difficulty)]),
        best       |-> JObj([highScore  |-> JNum(state.best.highScore),
                             bestStreak |-> JNum(state.best.bestStreak),
                             totalXP    |-> JNum(state.best.totalXP)]),
        collection |-> JObj([unlocked |->
                               JArr([i \in 1..Len(state.collection.unlocked) |->
                                       JStr(ToString(state.collection.unlocked[i]))])]),
        settings   |-> JObj([sound |-> JBool(state.settings.sound)])])

CardIdOf(v) == CHOOSE id \in 1..CatalogSize : ToString(id) = v.str

FromJs(v) ==
  [player     |-> [name       |-> v.obj.player.obj.name.str,
                   difficulty |-> v.obj.player.obj.difficulty.str],
   best       |-> [highScore  |-> v.obj.best.obj.highScore.num,
                   bestStreak |-> v.obj.best.obj.bestStreak.num,
                   totalXP    |-> v.obj.best.obj.totalXP.num],
   collection |-> [unlocked |->
                     [i \in 1..Len(v.obj.collection.obj.unlocked.arr) |->
                        CardIdOf(v.obj.collection.obj.unlocked.arr[i])]],
   settings   |-> [sound |-> v.obj.settings.obj.sound.bool]]

\* ------------------------------------------------------ challenge generator

\* a || b on strings
OrElse(a, b) == IF a # Undefined THEN a ELSE b

\* The entries of a table that pick() may return, `scope` bounding the
\* outcomes of Math.random by the entries' meanings.
Pickable(arr, scope) == {x \in Range(arr) : x.meaning \in scope}

\* The challenge with an adjective slot from length 3 on.
ChallengeAdjFromThree(len, subject, object, verb, adj, adjTargets) ==
  LET useAdj     == len >= 3
      subjWord   == nounForm(subject, "nomSg")
      objWord    == nounForm(object, "accSg")
      verbWord   == verb.pres3s
      targetNoun == IF adjTargets = "subject" THEN subject ELSE object
      aCase      == IF adjTargets = "subject" THEN "nomSg" ELSE "accSg"
      adjWord    == IF useAdj /\ adj # <<>>
                    THEN OrElse(adjForm(adj[1], aCase, targetNoun.gender), adj[1].lemma)
                    ELSE Undefined
      latin      == IF useAdj
                    THEN IF adjTargets = "subject"
                         THEN <<adjWord, subjWord, verbWord, objWord>>
                         ELSE <<subjWord, verbWord, adjWord, objWord>>
                    ELSE <<subjWord, verbWord, objWord>>
  IN  [len |-> len, subject |-> subject, object |-> object, verb |-> verb,
       adj |-> adj, adjTargets |-> adjTargets, latin |-> latin]

\* The challenge makeChallenge builds from its five random draws; adj is a
\* sequence of zero (null) or one adjective, adjTargets is "none" for null.
Challenge(len, subject, object, verb, adj, adjTargets) ==
  LET useAdj     == len >= 4
      subjWord   == nounForm(subject, "nomSg")
      objWord    == nounForm(object, "accSg")
      verbWord   == verb.pres3s
      targetNoun == IF adjTargets = "subject" THEN subject ELSE object
      aCase      == IF adjTargets = "subject" THEN "nomSg" ELSE "accSg"
      adjWord    == IF useAdj /\ adj # <<>>
                    THEN OrElse(adjForm(adj[1], aCase, targetNoun.gender), adj[1].lemma)
                    ELSE Undefined
      latin      == IF useAdj
                    THEN IF adjTargets = "subject"
                         THEN <<adjWord, subjWord, verbWord, objWord>>
                         ELSE <<subjWord, verbWord, adjWord, objWord>>
                    ELSE <<subjWord, verbWord, objWord>>
  IN  [len |-> len, subject |-> subject, object |-> object, verb |-> verb,
       adj |-> adj, adjTargets |-> adjTargets, latin |-> latin]

\* makeChallenge picking the object among all the nouns.
makeChallengeAnyObject(len, r) ==
  LET useAdj   == len >= 4
      subjects == {n \in Pickable(NOUNS, r.nouns) : n.id # <<"v", "e", "r", "b", "u", "m">>}
      adjsOf   == IF useAdj THEN {<<a>> : a \in Pickable(ADJECTIVES, r.adjs)} ELSE {<<>>}
      targets  == IF useAdj THEN {"subject", "object"} ELSE {"none"}
  IN  UNION {UNION {{Challenge(len, subject, object, verb, adj, adjTargets) :
                       verb \in Pickable(VERBS, r.verbs), adj \in adjsOf, adjTargets \in targets} :
                    object \in Pickable(NOUNS, r.nouns)} :
             subject \in subjects}

\* Every challenge makeChallenge(len) may return within the scope r.
makeChallenge(len, r) ==
  LET useAdj   == len >= 4
      subjects == {n \in Pickable(NOUNS, r.nouns) : n.id # <<"v", "e", "r", "b", "u", "m">>}
      objects(subject) == {n \in Pickable(NOUNS, r.nouns) : n.id # subject.id}
      adjs     == IF useAdj THEN {<<a>> : a \in Pickable(ADJECTIVES, r.adjs)} ELSE {<<>>}
      targets  == IF useAdj THEN {"subject", "object"} ELSE {"none"}
  IN  UNION {UNION {{Challenge(len, subject, object, verb, adj, adjTargets) :
                       verb \in Pickable(VERBS, r.verbs), adj \in adjs, adjTargets \in targets} :
                    object \in objects(subject)} :
             subject \in subjects}

DigitChars == <<"0", "1", "2", "3">>

\* `c-${i}-${t}`, i counted from 0
CorrectTileId(i, t) == <<"c", "-", DigitChars[i + 1], "-">> \o t

correctTiles(ch) ==
  [i \in 1..Len(ch.latin) |->
     [id |-> CorrectTileId(i - 1, ch.latin[i]), text |-> ch.latin[i], correct |-> TRUE]]

\* The decoys without the one of the adjective.
decoysNoAdjective(ch, otherVerb) ==
  << [id      |-> <<"d", "-", "s", "u", "b", "j", "-", "w", "r", "o", "n", "g">>,
      text    |-> nounForm(ch.subject, "accSg"),
      correct |-> FALSE],
     [id      |-> <<"d", "-", "o", "b", "j", "-", "w", "r", "o", "n", "g">>,
      text    |-> nounForm(ch.object, "nomSg"),
      correct |-> FALSE],
     [id      |-> <<"d", "-", "v", "e", "r", "b">>,
      text    |-> otherVerb.pres3s,
      correct |-> FALSE] >>

decoys(ch, otherVerb) ==
  LET targetNoun == IF ch.adjTargets = "subject" THEN ch.subject ELSE ch.object
      wrongCase  == IF ch.adjTargets = "subject" THEN "accSg" ELSE "nomSg"
      wrongAdj   == OrElse(adjForm(ch.adj[1], wrongCase, targetNoun.gender), ch.adj[1].lemma)
  IN  << [id      |-> <<"d", "-", "s", "u", "b", "j", "-", "w", "r", "o", "n", "g">>,
          text    |-> nounForm(ch.subject, "accSg"),
          correct |-> FALSE],
         [id      |-> <<"d", "-", "o", "b", "j", "-", "w", "r", "o", "n", "g">>,
          text    |-> nounForm(ch.object, "nomSg"),
          correct |-> FALSE],
         [id      |-> <<"d", "-", "v", "e", "r", "b">>,
          text    |-> otherVerb.pres3s,
          correct |-> FALSE] >>
      \o (IF ch.len >= 4 /\ ch.adj # <<>>
          THEN << [id |-> <<"d", "-", "a", "d", "j">>, text |-> wrongAdj, correct |-> FALSE] >>
          ELSE <<>>)

\* The tile cap of makeTiles: slice(0, 10).
MaxTiles == 10

\* The sets of elements shuffle(all).slice(0, n) may keep: a shuffle puts any
\* element anywhere, so any Min(n, length) of them.
ShuffleSlice(all, n) ==
  IF Len(all) <= n THEN {Range(all)}
  ELSE {kept \in SUBSET Range(all) : Cardinality(kept) = n}

\* makeTiles with slice(0, 6) for slice(0, 10).
makeTilesCapSix(ch, r) ==
  UNION {ShuffleSlice(correctTiles(ch) \o decoys(ch, otherVerb), 6) :
           otherVerb \in {v \in Pickable(VERBS, r.verbs) : v.id # ch.verb.id}}

\* Every tile set makeTiles(ch) may return within the scope r.  The order of
\* the final shuffle only places the buttons: the tiles are kept as a set.
makeTiles(ch, r) ==
  UNION {ShuffleSlice(correctTiles(ch) \o decoys(ch, otherVerb), MaxTiles) :
           otherVerb \in {v \in Pickable(VERBS, r.verbs) : v.id # ch.verb.id}}

RECURSIVE Join(_)
\* words.join(" ")
Join(words) ==
  IF words = <<>> THEN <<>>
  ELSE IF Len(words) = 1 THEN words[1]
  ELSE words[1] \o <<" ">> \o Join(Tail(words))

\* -------------------------------------------------------------- match pool

\* The items of the pool before the filter: two for each noun, one for each
\* verb, one for each adjective.  A meaning is kept as the lexicon's meaning
\* and what the template puts around it; the hint is display text only.
nounForms ==
  [k \in 1..2 * Len(NOUNS) |->
     LET n == NOUNS[(k + 1) \div 2]
     IN  IF k % 2 = 1
         THEN [id |-> n.id \o <<"-", "n", "o", "m">>, latin |-> nounForm(n, "nomSg"),
               meaning |-> [of |-> n.meaning, as |-> "subject"], tag |-> "NOM", kind |-> "noun"]
         ELSE [id |-> n.id \o <<"-", "a", "c", "c">>, latin |-> nounForm(n, "accSg"),
               meaning |-> [of |-> n.meaning, as |-> "object"], tag |-> "ACC", kind |-> "noun"]]

verbs ==
  [k \in 1..Len(VERBS) |->
     [id |-> VERBS[k].id, latin |-> VERBS[k].pres3s,
      meaning |-> [of |-> VERBS[k].meaning, as |-> "he/she/it"], tag |-> "V", kind |-> "verb"]]

adjs ==
  [k \in 1..Len(ADJECTIVES) |->
     [id |-> ADJECTIVES[k].id, latin |-> ADJECTIVES[k].lemma,
      meaning |-> [of |-> ADJECTIVES[k].meaning, as |-> "itself"], tag |-> "ADJ", kind |-> "adj"]]

\* typeof x.latin === "string" && x.latin.length > 0
HasLatin(x) == x.latin # Undefined /\ Len(x.latin) > 0

\* The pool of noun items alone, the nominative of each noun.
POOLNominativesOnly == SelectSeq([k \in 1..Len(NOUNS) |-> nounForms[2 * k - 1]], HasLatin)

POOL == SelectSeq(nounForms \o verbs \o adjs, HasLatin)

\* The items of the pool that Math.random may bring to the front within the
\* scope r, in the pool's order.
PoolInScope(r) ==
  LET inScope(x) == x.meaning.of \in r.nouns \cup r.verbs \cup r.adjs
  IN  SelectSeq(POOL, inScope)

\* [a[i], a[j]] = [a[j], a[i]]
Swap(a, i, j) == [a EXCEPT ![i] = a[j], ![j] = a[i]]

\* The outcomes of Math.floor(Math.random() * (i + 1)) within the scope r,
\* positions counted from 1: the position itself, and the first position at
\* the steps r.swaps.
RandomIndex(i, r) == {i} \cup (IF i \in r.swaps THEN {1} ELSE {})

RECURSIVE ShuffleFrom(_, _, _)
\* The loop of shuffle from step i down.
ShuffleFrom(a, i, r) ==
  IF i <= 1 THEN {a}
  ELSE UNION {ShuffleFrom(Swap(a, i, j), i - 1, r) : j \in RandomIndex(i, r)}

\* Every array shuffle(arr) may return within the scope r.
shuffle(arr, r) == ShuffleFrom(arr, Len(arr), r)

\* arr.slice(0, n)
SliceTo(arr, n) == SubSeq(arr, 1, Min(n, Len(arr)))

Ids(items) == [i \in 1..Len(items) |-> items[i].id]

\* makeRound with slice(0, n - 1).
makeRoundOneShort(n, r) ==
  UNION {LET chosen == SliceTo(pool, n - 1)
         IN  {[items |-> chosen, left |-> left, right |-> right] :
                left \in shuffle(Ids(chosen), r), right \in shuffle(Ids(chosen), r)} :
         pool \in shuffle(PoolInScope(r), r)}

\* Every round makeRound(n) may return within the scope r.
makeRound(n, r) ==
  UNION {LET chosen == SliceTo(pool, n)
         IN  {[items |-> chosen, left |-> left, right |-> right] :
                left \in shuffle(Ids(chosen), r), right \in shuffle(Ids(chosen), r)} :
         pool \in shuffle(PoolInScope(r), r)}

\* The round of a Sighting Log game, which has none.
NoRound == [items |-> <<>>, left |-> <<>>, right |-> <<>>]

\* ------------------------------------------------------------ round engine

VARIABLES
  rnd,            \* the scope of Math.random's outcomes (fixed in a behaviour)
  app,            \* App's mode ("none": undefined), started and runId
  mode,           \* the mounted game component: "match" | "sighting"
  persisted,      \* App's persisted state
  stored,         \* localStorage's item LS_KEY: <<>> (none) or <<text>>
  roundGen,       \* the identity of the current round: 1, 2, ...
  phase,          \* "playing" (Active) | "paused" (Ended)
  secondsLeft,
  combo,
  score,
  timerRef,       \* 0 (null), or the round in which startTimer made the interval
  round,          \* the items and the two columns of ids       (Match)
  selectedLatin,  \* <<>> (null) or <<id>>                       (Match)
  doneIds,        \* the resolved item ids                       (Match)
  challenge,      \*                                             (Sighting Log)
  tiles,          \*                                             (Sighting Log)
  answer,         \* the partial answer, a sequence of tiles     (Sighting Log)
  finishTimeouts, \* pending setTimeout round-complete callbacks, oldest first
  popTimeouts,    \* pending setTimeout popLast callbacks, oldest first
                  \* (each with `ticked`: an interval tick has run since it was set)
  endCalls,       \* history: onRoundEnd calls made while each round was current
  lastEnd,        \* history: the last onRoundEnd call, <<>> before the first
  peakCombo,      \* history: the largest combo of the current round
  verdict         \* history: "correct" | "incorrect" if the last step judged
                  \*          a submission, else "none"

vars ==
  <<rnd, app, mode, persisted, stored, roundGen, phase, secondsLeft, combo, score, timerRef,
    round, selectedLatin, doneIds, challenge, tiles, answer, finishTimeouts,
    popTimeouts, endCalls, lastEnd, peakCombo, verdict>>

matchVars == <<round, selectedLatin, doneIds>>

sightingVars == <<challenge, tiles, answer>>

difficultyKey == persisted.player.difficulty

conf == DIFFICULTY[difficultyKey]

totalTime == conf.time

roundSize == conf.roundSize

sentenceLen == conf.sentenceLen

\* round.items, each item named by its position: the pool's ids are pairwise
\* distinct, so an id and a position determine each other.
RoundItemIds == 1..roundSize

\* The player acts in the last seconds of a round, and presses Next or
\* Restart once a round has ended.
UserActive == secondsLeft <= ActiveSeconds

CanRestart == phase = "paused" \/ UserActive

\* The sighting state of a Match game, which has none.
NoChallenge == [len |-> 0, latin |-> <<>>]

\* onRoundEnd({mode, score, comboMax}) called by a callback that round g
\* created: awardXP, and the history of the call, counted for the round that
\* is current when it is made.
onRoundEnd(g, reason, sc, comboMax) ==
  /\ persisted' = awardXP(persisted, sc, comboMax)
  /\ stored' = saveState(ToJs(persisted'))
  /\ endCalls' = [endCalls EXCEPT ![roundGen] = @ + 1]
  /\ lastEnd' = << [round      |-> g,
                    current    |-> g = roundGen,
                    reason     |-> reason,
                    score      |-> sc,
                    comboMax   |-> comboMax,
                    roundScore |-> score,
                    roundPeak  |-> peakCombo,
                    before     |-> persisted.best] >>

\* finishRound(reason), run by a render that saw score sc and combo cb.
finishRound(g, reason, sc, cb) ==
  /\ timerRef' = 0
  /\ phase' = "paused"
  /\ onRoundEnd(g, reason, sc, cb)

\* The time-expiry effect's test with secondsLeft < 0.
TimeExpiredBelowZero(ph, s) == ph = "playing" /\ s < 0

\* The time-expiry effect's test, on the state a tick leaves.
TimeExpired(ph, s) == ph = "playing" /\ s <= 0

\* The timeouts' delays (150, 180 and 250 ms) are shorter than the interval's
\* period (1000 ms): a pending timeout runs before a second tick does.
NoTimeoutOverdue ==
  /\ \A i \in DOMAIN finishTimeouts : ~finishTimeouts[i].ticked
  /\ \A i \in DOMAIN popTimeouts : ~popTimeouts[i].ticked

Ticked(timeouts) == [i \in DOMAIN timeouts |-> [timeouts[i] EXCEPT !.ticked = TRUE]]

\* One interval callback, setSecondsLeft(s => s - 1), and the effect on
\* [secondsLeft, phase] that follows the render.
Tick ==
  /\ timerRef # 0
  /\ NoTimeoutOverdue
  /\ secondsLeft' = secondsLeft - 1
  /\ verdict' = "none"
  /\ IF TimeExpired(phase, secondsLeft')
     THEN finishRound(roundGen, "Time!", score, combo)
     ELSE UNCHANGED <<persisted, stored, phase, timerRef, endCalls, lastEnd>>
  /\ finishTimeouts' = Ticked(finishTimeouts)
  /\ popTimeouts' = Ticked(popTimeouts)
  /\ UNCHANGED <<rnd, app, mode, roundGen, combo, score, peakCombo, matchVars,
                 sightingVars>>

\* The effect on [phase] after a handler that sets phase to "playing":
\* startTimer() if phase changed, nothing if it was "playing" already.
TimerAfterPlaying(g) == IF phase = "playing" THEN timerRef ELSE g

\* The combo a judged submission leaves, in both modes: setCombo(combo + 1)
\* when it is correct, setCombo(0) when it is not.
ComboAfterKept(correct, cb) == IF correct THEN cb + 1 ELSE cb

ComboAfter(correct, cb) == IF correct THEN cb + 1 ELSE 0

\* ------------------------------------------------------------------ Match

\* chooseLatin without its test of the phase.
chooseLatinAnyPhase(id) ==
  /\ mode = "match"
  /\ id \notin doneIds
  /\ selectedLatin' = <<id>>
  /\ verdict' = "none"
  /\ UNCHANGED <<rnd, app, mode, persisted, stored, roundGen, phase, secondsLeft, combo, score,
                 timerRef, round, doneIds, sightingVars, finishTimeouts, popTimeouts,
                 endCalls, lastEnd, peakCombo>>

chooseLatin(id) ==
  /\ mode = "match"
  /\ phase = "playing"
  /\ id \notin doneIds
  /\ selectedLatin' = <<id>>
  /\ verdict' = "none"
  /\ UNCHANGED <<rnd, app, mode, persisted, stored, roundGen, phase, secondsLeft, combo, score,
                 timerRef, round, doneIds, sightingVars, finishTimeouts, popTimeouts,
                 endCalls, lastEnd, peakCombo>>

\* The summary a round-complete callback will report: Match schedules
\* finishRound itself, which reads the score and combo of the render that
\* handled the click.
MatchSummary(g, sc, cb, newScore, nextCombo) ==
  [round |-> g, score |-> sc, comboMax |-> cb, run |-> app.runId, ticked |-> FALSE]

\* chooseMeaning resolving the meaning of a wrong pair too.
chooseMeaningResolvesWrong(id) ==
  /\ mode = "match"
  /\ phase = "playing"
  /\ selectedLatin # <<>>
  /\ id \notin doneIds
  /\ LET correct   == selectedLatin[1] = id
         nextCombo == ComboAfter(TRUE, combo)
         gained    == xpFor(TRUE, secondsLeft, nextCombo, difficultyKey)
     IN  IF correct
         THEN /\ combo' = nextCombo
              /\ score' = score + gained
              /\ doneIds' = doneIds \cup {id}
              /\ selectedLatin' = <<>>
              /\ finishTimeouts' =
                   IF Cardinality(doneIds) + 1 >= roundSize
                   THEN Append(finishTimeouts,
                               [round |-> roundGen, score |-> score, comboMax |-> combo,
                                run |-> app.runId, ticked |-> FALSE])
                   ELSE finishTimeouts
              /\ peakCombo' = Max(peakCombo, nextCombo)
              /\ verdict' = "correct"
         ELSE /\ combo' = ComboAfter(FALSE, combo)
              /\ doneIds' = doneIds \cup {id}
              /\ selectedLatin' = <<>>
              /\ verdict' = "incorrect"
              /\ UNCHANGED <<score, finishTimeouts, peakCombo>>
  /\ UNCHANGED <<rnd, app, mode, persisted, stored, roundGen, phase, secondsLeft, timerRef,
                 round, sightingVars, popTimeouts, endCalls, lastEnd>>

chooseMeaning(id) ==
  /\ mode = "match"
  /\ phase = "playing"
  /\ selectedLatin # <<>>
  /\ id \notin doneIds
  /\ LET correct   == selectedLatin[1] = id
         nextCombo == ComboAfter(TRUE, combo)
         gained    == xpFor(TRUE, secondsLeft, nextCombo, difficultyKey)
     IN  IF correct
         THEN /\ combo' = nextCombo
              /\ score' = score + gained
              /\ doneIds' = doneIds \cup {id}
              /\ selectedLatin' = <<>>
              /\ finishTimeouts' =
                   IF Cardinality(doneIds) + 1 >= roundSize
                   THEN Append(finishTimeouts,
                               MatchSummary(roundGen, score, combo, score + gained, nextCombo))
                   ELSE finishTimeouts
              /\ peakCombo' = Max(peakCombo, nextCombo)
              /\ verdict' = "correct"
         ELSE /\ combo' = ComboAfter(FALSE, combo)
              /\ selectedLatin' = <<>>
              /\ verdict' = "incorrect"
              /\ UNCHANGED <<score, doneIds, finishTimeouts, peakCombo>>
  /\ UNCHANGED <<rnd, app, mode, persisted, stored, roundGen, phase, secondsLeft, timerRef,
                 round, sightingVars, popTimeouts, endCalls, lastEnd>>

\* The setters of a new Match round without setCombo(0).
MatchNewRoundKeepsCombo ==
  /\ roundGen < MaxRounds
  /\ roundGen' = roundGen + 1
  /\ endCalls' = Append(endCalls, 0)
  /\ secondsLeft' = totalTime
  /\ round' \in makeRound(roundSize, rnd)
  /\ selectedLatin' = <<>>
  /\ doneIds' = {}
  /\ score' = 0
  /\ phase' = "playing"
  /\ timerRef' = TimerAfterPlaying(roundGen + 1)
  /\ peakCombo' = 0
  /\ verdict' = "none"
  /\ UNCHANGED <<rnd, app, mode, persisted, stored, combo, sightingVars, finishTimeouts,
                 popTimeouts, lastEnd>>

\* The setters shared by nextRound and the Restart handler of MatchMode.
MatchNewRound ==
  /\ roundGen < MaxRounds
  /\ roundGen' = roundGen + 1
  /\ endCalls' = Append(endCalls, 0)
  /\ secondsLeft' = totalTime
  /\ round' \in makeRound(roundSize, rnd)
  /\ selectedLatin' = <<>>
  /\ doneIds' = {}
  /\ combo' = 0
  /\ score' = 0
  /\ phase' = "playing"
  /\ timerRef' = TimerAfterPlaying(roundGen + 1)
  /\ peakCombo' = 0
  /\ verdict' = "none"
  /\ UNCHANGED <<rnd, app, mode, persisted, stored, sightingVars, finishTimeouts, popTimeouts,
                 lastEnd>>

\* The Next button, rendered while phase is "paused".
MatchNextRound ==
  /\ mode = "match"
  /\ phase = "paused"
  /\ MatchNewRound

\* The Restart button, always rendered.
MatchRestart ==
  /\ mode = "match"
  /\ MatchNewRound

\* ----------------------------------------------------------- Sighting Log

\* The summary a round-complete callback will report: Sighting Log passes the
\* values it has just computed.
SightingSummary(g, sc, cb, newScore, nextCombo) ==
  [round |-> g, score |-> newScore, comboMax |-> nextCombo, run |-> app.runId, ticked |-> FALSE]

\* The judgement with the texts compared as sets.
JudgeAnyOrder(next, ch) == {next[i].text : i \in 1..Len(next)} = Range(ch.latin)

\* built.join(" ") === challenge.latin.join(" ")
Judge(next, ch) == Join([i \in 1..Len(next) |-> next[i].text]) = Join(ch.latin)

\* tapTile without its test that the tile is in the answer already.
tapTileAgain(tile) ==
  /\ mode = "sighting"
  /\ phase = "playing"
  /\ Len(answer) < Len(challenge.latin)
  /\ LET next      == Append(answer, tile)
         nextCombo == ComboAfter(TRUE, combo)
         gained    == xpFor(TRUE, secondsLeft, nextCombo, difficultyKey)
         newScore  == score + gained
     IN  /\ answer' = next
         /\ IF Len(next) = Len(challenge.latin)
            THEN IF Judge(next, challenge)
                 THEN /\ combo' = nextCombo
                      /\ score' = newScore
                      /\ finishTimeouts' =
                           Append(finishTimeouts,
                                  SightingSummary(roundGen, score, combo, newScore, nextCombo))
                      /\ peakCombo' = Max(peakCombo, nextCombo)
                      /\ verdict' = "correct"
                      /\ UNCHANGED popTimeouts
                 ELSE /\ combo' = ComboAfter(FALSE, combo)
                      /\ popTimeouts' = Append(popTimeouts, [round |-> roundGen, run |-> app.runId, ticked |-> FALSE])
                      /\ verdict' = "incorrect"
                      /\ UNCHANGED <<score, finishTimeouts, peakCombo>>
            ELSE /\ verdict' = "none"
                 /\ UNCHANGED <<combo, score, finishTimeouts, popTimeouts, peakCombo>>
  /\ UNCHANGED <<rnd, app, mode, persisted, stored, roundGen, phase, secondsLeft, timerRef,
                 matchVars, challenge, tiles, endCalls, lastEnd>>

tapTile(tile) ==
  /\ mode = "sighting"
  /\ phase = "playing"
  /\ Len(answer) < Len(challenge.latin)
  /\ \A i \in 1..Len(answer) : answer[i].id # tile.id
  /\ LET next      == Append(answer, tile)
         nextCombo == ComboAfter(TRUE, combo)
         gained    == xpFor(TRUE, secondsLeft, nextCombo, difficultyKey)
         newScore  == score + gained
     IN  /\ answer' = next
         /\ IF Len(next) = Len(challenge.latin)
            THEN IF Judge(next, challenge)
                 THEN /\ combo' = nextCombo
                      /\ score' = newScore
                      /\ finishTimeouts' =
                           Append(finishTimeouts,
                                  SightingSummary(roundGen, score, combo, newScore, nextCombo))
                      /\ peakCombo' = Max(peakCombo, nextCombo)
                      /\ verdict' = "correct"
                      /\ UNCHANGED popTimeouts
                 ELSE /\ combo' = ComboAfter(FALSE, combo)
                      /\ popTimeouts' = Append(popTimeouts, [round |-> roundGen, run |-> app.runId, ticked |-> FALSE])
                      /\ verdict' = "incorrect"
                      /\ UNCHANGED <<score, finishTimeouts, peakCombo>>
            ELSE /\ verdict' = "none"
                 /\ UNCHANGED <<combo, score, finishTimeouts, popTimeouts, peakCombo>>
  /\ UNCHANGED <<rnd, app, mode, persisted, stored, roundGen, phase, secondsLeft, timerRef,
                 matchVars, challenge, tiles, endCalls, lastEnd>>

\* The setters of a new Sighting Log round without setAnswer([]).
SightingNewRoundKeepsAnswer ==
  /\ roundGen < MaxRounds
  /\ roundGen' = roundGen + 1
  /\ endCalls' = Append(endCalls, 0)
  /\ secondsLeft' = totalTime
  /\ \E ch \in makeChallenge(sentenceLen, rnd) :
       /\ challenge' = ch
       /\ tiles' \in makeTiles(ch, rnd)
  /\ combo' = 0
  /\ score' = 0
  /\ phase' = "playing"
  /\ timerRef' = TimerAfterPlaying(roundGen + 1)
  /\ peakCombo' = 0
  /\ verdict' = "none"
  /\ UNCHANGED <<rnd, app, mode, persisted, stored, matchVars, answer, finishTimeouts,
                 popTimeouts, lastEnd>>

\* The setters shared by nextRound and the Restart handler of SightingLogMode.
SightingNewRound ==
  /\ roundGen < MaxRounds
  /\ roundGen' = roundGen + 1
  /\ endCalls' = Append(endCalls, 0)
  /\ secondsLeft' = totalTime
  /\ \E ch \in makeChallenge(sentenceLen, rnd) :
       /\ challenge' = ch
       /\ tiles' \in makeTiles(ch, rnd)
  /\ answer' = <<>>
  /\ combo' = 0
  /\ score' = 0
  /\ phase' = "playing"
  /\ timerRef' = TimerAfterPlaying(roundGen + 1)
  /\ peakCombo' = 0
  /\ verdict' = "none"
  /\ UNCHANGED <<rnd, app, mode, persisted, stored, matchVars, finishTimeouts, popTimeouts,
                 lastEnd>>

SightingNextRound ==
  /\ mode = "sighting"
  /\ phase = "paused"
  /\ SightingNewRound

SightingRestart ==
  /\ mode = "sighting"
  /\ SightingNewRound

\* ---------------------------------------------------------------- timeouts

\* The oldest round-complete callback runs: clearTimer, setPhase("paused"),
\* onRoundEnd with the summary it closed over.  The callback of a component
\* that has been unmounted finds its timerRef null and sets no state of the
\* mounted one; it calls onRoundEnd all the same.
FinishTimeoutFires ==
  /\ finishTimeouts # <<>>
  /\ LET s == Head(finishTimeouts)
     IN  IF s.run = app.runId
         THEN finishRound(s.round, "Round complete!", s.score, s.comboMax)
         ELSE /\ onRoundEnd(s.round, "Round complete!", s.score, s.comboMax)
              /\ UNCHANGED <<timerRef, phase>>
  /\ finishTimeouts' = Tail(finishTimeouts)
  /\ verdict' = "none"
  /\ UNCHANGED <<rnd, app, mode, roundGen, secondsLeft, combo, score, matchVars,
                 sightingVars, popTimeouts, peakCombo>>

\* The oldest pop callback runs: setAnswer(a => popLast(a)), which sets
\* nothing when its component has been unmounted.
PopTimeoutFires ==
  /\ popTimeouts # <<>>
  /\ answer' = IF Head(popTimeouts).run = app.runId THEN popLast(answer) ELSE answer
  /\ popTimeouts' = Tail(popTimeouts)
  /\ verdict' = "none"
  /\ UNCHANGED <<rnd, app, mode, persisted, stored, roundGen, phase, secondsLeft, combo, score,
                 timerRef, matchVars, challenge, tiles, finishTimeouts, endCalls,
                 lastEnd, peakCombo>>

\* ----------------------------------------------------------- specification

\* Math.random's outcomes in the round engine: two nouns (one of them neuter,
\* its accusative equal to its nominative), two verbs, one adjective.
EngineScope ==
  [nouns |-> {"girl", "word"}, verbs |-> {"I love", "I fear"}, adjs |-> {"good"},
   swaps |-> {}]

\* loadState() with nothing stored, then the difficulty Select.
BasePersisted ==
  [player     |-> [name |-> "Challenger", difficulty |-> "normal"],
   best       |-> [highScore |-> 0, bestStreak |-> 0, totalXP |-> 0],
   collection |-> [unlocked |-> <<>>],
   settings   |-> [sound |-> TRUE]]

\* The history before any round has ended.
NoHistory ==
  /\ endCalls = <<0>>
  /\ lastEnd = <<>>
  /\ peakCombo = 0
  /\ verdict = "none"

\* A game component mounted by Start, its useState initialisers and the
\* effect on [phase], which starts the timer, then ticks down to sec seconds.
MountedAt(m, d, r, sec) ==
  /\ rnd = r
  /\ app = [mode |-> m, started |-> TRUE, runId |-> 2]
  /\ mode = m
  /\ persisted = [BasePersisted EXCEPT !.player.difficulty = d]
  /\ stored = saveState(ToJs(persisted))
  /\ roundGen = 1
  /\ phase = "playing"
  /\ secondsLeft = sec
  /\ combo = 0
  /\ score = 0
  /\ timerRef = 1
  /\ round \in (IF m = "match" THEN makeRound(DIFFICULTY[d].roundSize, r) ELSE {NoRound})
  /\ selectedLatin = <<>>
  /\ doneIds = {}
  /\ IF m = "sighting"
     THEN \E ch \in makeChallenge(DIFFICULTY[d].sentenceLen, r) :
            /\ challenge = ch
            /\ tiles \in makeTiles(ch, r)
     ELSE /\ challenge = NoChallenge
          /\ tiles = {}
  /\ answer = <<>>
  /\ finishTimeouts = <<>>
  /\ popTimeouts = <<>>
  /\ NoHistory

Mounted(m, d, r) == MountedAt(m, d, r, DIFFICULTY[d].time)

Init ==
  \E m \in {"match", "sighting"}, d \in DifficultyKeys : Mounted(m, d, EngineScope)

Next ==
  \/ Tick
  \/ \E id \in RoundItemIds : UserActive /\ chooseLatin(id)
  \/ \E id \in RoundItemIds : UserActive /\ chooseMeaning(id)
  \/ MatchNextRound
  \/ CanRestart /\ MatchRestart
  \/ \E tile \in tiles : UserActive /\ tapTile(tile)
  \/ SightingNextRound
  \/ CanRestart /\ SightingRestart
  \/ FinishTimeoutFires
  \/ PopTimeoutFires

Spec == Init /\ [][Next]_vars

\* ------------------------------------------------- properties of the engine

\* C1: the end callback is invoked exactly once for each round that ends, at
\* its transition from Active to Ended, and never twice for the same round.
C1_EndCallbackOncePerRound ==
  /\ \A g \in DOMAIN endCalls : endCalls[g] <= 1
  /\ phase = "paused" => endCalls[roundGen] = 1

\* C2: the summary a round reports when it ends carries the round's final
\* score, the award of the last correct action included, and lifetime XP
\* grows by exactly that score.
C2_SummaryCarriesFinalScore ==
  \A e \in Range(lastEnd) :
    e.current =>
      /\ e.score = e.roundScore
      /\ persisted.best.totalXP = e.before.totalXP + e.roundScore

\* C3: after a round ends, the best combo ever is the larger of its previous
\* value and the largest combo reached at any point of the round, also when
\* a later incorrect action had reset the combo.
C3_BestComboIsRoundPeak ==
  \A e \in Range(lastEnd) :
    e.current =>
      persisted.best.bestStreak = Max(e.before.bestStreak, e.roundPeak)

\* C4: when seconds-remaining reaches zero in an Active round, the round ends
\* exactly once: the timer is stopped, the end callback has fired once for
\* the round, and seconds-remaining stays at zero.
C4_TimeExpiryEndsRoundOnce ==
  secondsLeft <= 0 =>
    /\ secondsLeft = 0
    /\ phase = "paused"
    /\ timerRef = 0
    /\ endCalls[roundGen] = 1

\* C5: entering Ended stops the timer, and no tick of a timer started for a
\* superseded round decrements the seconds-remaining of a new round.
C5_NoTickFromSupersededTimer ==
  [][/\ phase' = "paused" => timerRef' = 0
     /\ secondsLeft' = secondsLeft - 1 => timerRef = roundGen]_vars

\* C22: a round-complete callback acts on the round that scheduled it only:
\* when it runs, that round is still the current one, so it neither ends a
\* later round nor reports a superseded round's score to onRoundEnd.
C22_FinalizationActsOnOwnRound ==
  [][Len(finishTimeouts') < Len(finishTimeouts) =>
       /\ Head(finishTimeouts).round = roundGen
       /\ lastEnd'[1].current]_vars

\* The requirement of a round-complete end is met by the current round: every
\* item is resolved (Match), or the answer is one fully correct sentence
\* (Sighting Log).
RoundResolved ==
  IF mode = "match"
  THEN doneIds = RoundItemIds
  ELSE Len(answer) = Len(challenge.latin) /\ Judge(answer, challenge)

\* C31: a round enters Ended with the reason round-complete only after every
\* item of the round has been resolved (Match) or after one fully correct
\* sentence (Sighting Log), and once that has happened the round does enter
\* Ended.
C31_RoundCompleteOnlyWhenResolved ==
  [][Len(finishTimeouts') < Len(finishTimeouts) => RoundResolved]_vars

\* The timeouts and the interval run.
SpecFair == Spec /\ WF_vars(FinishTimeoutFires) /\ WF_vars(PopTimeoutFires) /\ WF_vars(Tick)

\* Once a round is resolved, it does enter Ended, or is superseded.
ResolvedRoundEnds == RoundResolved ~> phase = "paused"

\* A round-complete callback that runs in the round that scheduled it finds
\* the round resolved.
RoundCompleteInOwnRoundIsResolved ==
  [][(Len(finishTimeouts') < Len(finishTimeouts) /\ Head(finishTimeouts).round = roundGen)
       => RoundResolved]_vars

\* ------------------------------------------------------ progression alone

\* The scores and combos of the summaries given to awardXP.
AwardScores == {0, 90, 250, 400, 1000}

AwardCombos == {0, 1, 3}

\* Lifetime XP in a behaviour of SpecAward.
MaxTotalXP == 1500

\* App before Start: no game component is mounted.
NotStarted ==
  /\ rnd = EngineScope
  /\ app = [mode |-> "none", started |-> FALSE, runId |-> 0]
  /\ mode = "none"
  /\ roundGen = 1
  /\ phase = "paused"
  /\ secondsLeft = 0
  /\ combo = 0
  /\ score = 0
  /\ timerRef = 0
  /\ round = NoRound
  /\ selectedLatin = <<>>
  /\ doneIds = {}
  /\ challenge = NoChallenge
  /\ tiles = {}
  /\ answer = <<>>
  /\ finishTimeouts = <<>>
  /\ popTimeouts = <<>>
  /\ NoHistory

InitAward ==
  /\ persisted = BasePersisted
  /\ stored = saveState(ToJs(persisted))
  /\ NotStarted

\* One awardXP(deltaXP, comboMax) call.
AwardStep ==
  /\ \E deltaXP \in AwardScores, comboMax \in AwardCombos :
       /\ persisted.best.totalXP + deltaXP <= MaxTotalXP
       /\ persisted' = awardXP(persisted, deltaXP, comboMax)
  /\ stored' = saveState(ToJs(persisted'))
  /\ UNCHANGED <<rnd, app, mode, roundGen, phase, secondsLeft, combo, score, timerRef,
                 matchVars, sightingVars, finishTimeouts, popTimeouts, endCalls,
                 lastEnd, peakCombo, verdict>>

NextAward == AwardStep

SpecAward == InitAward /\ [][NextAward]_vars

\* C6: one awardXP call unlocks at most one reward, however many thresholds
\* the XP crossed: from 0 XP and nothing unlocked, a call that brings
\* lifetime XP to 1000 with a catalog of 4 unlocks exactly one.
C6_OneUnlockPerAward ==
  [][/\ Len(persisted'.collection.unlocked) <= Len(persisted.collection.unlocked) + 1
     /\ ( /\ persisted.best.totalXP = 0
          /\ persisted.collection.unlocked = <<>>
          /\ persisted'.best.totalXP = 1000 )
        => Len(persisted'.collection.unlocked) = 1]_vars

\* C6's case: lifetime XP is 1000, four thresholds crossed, one card unlocked.
C6_Witness ==
  /\ persisted.best.totalXP = 1000
  /\ Len(persisted.collection.unlocked) = 1
  /\ Len(BIRD_CARDS) = 4

\* C15: across round ends, lifetime XP, the best single-round score and the
\* best combo never decrease, and no unlocked reward leaves the unlocked set.
C15_ProgressNeverDecreases ==
  [][/\ persisted'.best.totalXP >= persisted.best.totalXP
     /\ persisted'.best.highScore >= persisted.best.highScore
     /\ persisted'.best.bestStreak >= persisted.best.bestStreak
     /\ Range(persisted.collection.unlocked) \subseteq Range(persisted'.collection.unlocked)
     /\ Len(persisted'.collection.unlocked) >= Len(persisted.collection.unlocked)]_vars

\* C15's case: after a round of 1000 XP and combo 3, a round of 90 XP has
\* been folded in: the maxima are those of the first, two cards are unlocked.
C15_Witness ==
  /\ persisted.best.totalXP = 1090
  /\ persisted.best.highScore = 1000
  /\ persisted.best.bestStreak = 3
  /\ Len(persisted.collection.unlocked) = 2

\* The ids of the first n cards of the catalog, in catalog order.
CatalogPrefix(n) == [i \in 1..n |-> BIRD_CARDS[i].id]

\* The position in the catalog of the first card that is not unlocked.
FirstLocked(unlocked) ==
  CHOOSE i \in DOMAIN BIRD_CARDS :
    /\ BIRD_CARDS[i].id \notin Range(unlocked)
    /\ \A k \in 1..(i - 1) : BIRD_CARDS[k].id \in Range(unlocked)

\* C33: each unlock adds the first catalog entry not yet unlocked, so from
\* the default progress the unlocked list is, after any sequence of round
\* ends, a prefix of the catalog in catalog order, without duplicates.
C33_UnlockedIsCatalogPrefix ==
  /\ [][persisted'.collection.unlocked # persisted.collection.unlocked =>
         persisted'.collection.unlocked =
           Append(persisted.collection.unlocked,
                  BIRD_CARDS[FirstLocked(persisted.collection.unlocked)].id)]_vars
  /\ [](/\ Len(persisted.collection.unlocked) <= Len(BIRD_CARDS)
        /\ persisted.collection.unlocked =
             CatalogPrefix(Len(persisted.collection.unlocked)))

\* C33's case: round ends have unlocked the whole catalog, card by card.
C33_Witness ==
  /\ persisted.best.totalXP >= 1000
  /\ Len(persisted.collection.unlocked) = Len(BIRD_CARDS)

\* min(floor(totalXP / 250), catalog size)
UnlockTarget == Min(persisted.best.totalXP \div 250, Len(BIRD_CARDS))

\* C35: from the default progress, after any sequence of round ends, the
\* number of unlocked rewards never exceeds min(floor(totalXP / 250), catalog
\* size).
C35_UnlockedAtMostTarget == Len(persisted.collection.unlocked) <= UnlockTarget

\* C35's case: round ends of 250 XP each have unlocked two rewards at 500 XP,
\* as many as the target.
C35_Witness ==
  /\ persisted.best.totalXP = 500
  /\ persisted.best.highScore = 250
  /\ Len(persisted.collection.unlocked) = 2

\* Rounds keep ending.
SpecAwardFair == SpecAward /\ WF_vars(AwardStep)

\* C36: while the unlocked count is below min(floor(totalXP / 250), catalog
\* size), every round end, one with score 0 included, unlocks exactly one
\* more reward, so after finitely many round ends the count equals the
\* target.
C36_BacklogUnlocksOnePerRoundEnd ==
  /\ [][Len(persisted.collection.unlocked) < UnlockTarget =>
         Len(persisted'.collection.unlocked) = Len(persisted.collection.unlocked) + 1]_vars
  /\ (Len(persisted.collection.unlocked) < UnlockTarget)
       ~> (Len(persisted.collection.unlocked) = UnlockTarget)

\* C36's case: a round of 1000 XP unlocked one reward of the four due, and
\* two round ends of score 0 have each unlocked one more.
C36_Witness ==
  /\ persisted.best.totalXP = 1000
  /\ persisted.best.highScore = 1000
  /\ Len(persisted.collection.unlocked) = 3

\* ------------------------------------------------------ the generator alone

\* Math.random's outcomes in SpecGen: the three genders and the three
\* declensions of the nouns, three verbs, two adjectives.
GenScope ==
  [nouns |-> {"girl", "sailor", "friend", "word", "king"},
   verbs |-> {"I love", "I fear", "I carry"},
   adjs  |-> {"good", "fast"},
   swaps |-> {}]

InitGen == \E d \in DifficultyKeys : Mounted("sighting", d, GenScope)

\* The player taps tiles of the sentence, in any order.
TapCorrectTile == \E tile \in {t \in tiles : t.correct} : tapTile(tile)

NextGen ==
  \/ TapCorrectTile
  \/ FinishTimeoutFires
  \/ PopTimeoutFires

SpecGen == InitGen /\ [][NextGen]_vars

\* C7: every token of the correct sequence is among the offered tiles: the
\* cap of 10 tiles never drops a correct tile.
C7_CorrectTilesOffered ==
  /\ Range(correctTiles(challenge)) \subseteq tiles
  /\ \A i \in 1..Len(challenge.latin) :
       \E t \in tiles : t.correct /\ t.text = challenge.latin[i]
  /\ Cardinality(tiles) <= 10

\* C7's case: a sentence of four tokens with four decoys, the most tiles
\* makeTiles builds.
C7_Witness ==
  /\ Len(challenge.latin) = 4
  /\ Cardinality(tiles) = 8
  /\ Cardinality({t \in tiles : t.correct}) = 4

\* The answer holds exactly the correct tiles.
AllCorrectTiles ==
  /\ Len(answer) = Len(challenge.latin)
  /\ Range(answer) = Range(correctTiles(challenge))

\* C8: an answer of exactly the correct tiles is judged correct when they are
\* in the expected order, and incorrect in any other order.
C8_SequenceExact ==
  (verdict # "none" /\ AllCorrectTiles) =>
    (verdict = "correct" <=> answer = correctTiles(challenge))

\* C8's case: the correct tiles of a four-token sentence, tapped in another
\* order, have just been judged incorrect.
C8_Witness ==
  /\ verdict = "incorrect"
  /\ AllCorrectTiles
  /\ Len(answer) = 4
  /\ answer # correctTiles(challenge)

\* Every word that is a lemma or a form of an adjective of the lexicon.
AdjectiveWords ==
  UNION {{a.lemma} \cup {adjForm(a, c, g) : c \in GramCases, g \in {"m", "f", "n"}} :
         a \in Range(ADJECTIVES)} \ {Undefined}

\* The tokens of the expected sequence that are adjectives.
AdjectiveTokens == {i \in 1..Len(challenge.latin) : challenge.latin[i] \in AdjectiveWords}

\* C20: at the hard difficulty the expected sequence of a challenge has
\* exactly 4 tokens and holds an adjective; at easy and normal it has exactly
\* 3 tokens and holds none.
C20_LengthAndAdjectiveByDifficulty ==
  IF difficultyKey = "hard"
  THEN /\ Len(challenge.latin) = 4
       /\ challenge.adj # <<>>
       /\ Cardinality(AdjectiveTokens) = 1
  ELSE /\ Len(challenge.latin) = 3
       /\ challenge.adj = <<>>
       /\ AdjectiveTokens = {}

\* C20's case: a hard challenge whose adjective agrees with its object has
\* been answered in full.
C20_Witness ==
  /\ difficultyKey = "hard"
  /\ challenge.adjTargets = "object"
  /\ challenge.latin[3] \in AdjectiveWords
  /\ answer = correctTiles(challenge)

\* C26: the expected sequence is adjective, subject in the nominative, verb
\* in the third person, object in the accusative when the adjective agrees
\* with the subject; subject, verb, adjective, object when it agrees with the
\* object; subject, verb, object when there is no adjective. The adjective
\* is in the form of its target's gender, nominative for the subject and
\* accusative for the object.
C26_TokenOrderAndAgreement ==
  LET subj == challenge.subject.forms.nomSg
      verb == challenge.verb.pres3s
      obj  == challenge.object.forms.accSg
  IN  /\ challenge.adjTargets \in {"subject", "object", "none"}
      /\ challenge.adjTargets = "none" <=> challenge.adj = <<>>
      /\ challenge.adjTargets = "subject" =>
           challenge.latin =
             <<challenge.adj[1].forms.nomSg[challenge.subject.gender], subj, verb, obj>>
      /\ challenge.adjTargets = "object" =>
           challenge.latin =
             <<subj, verb, challenge.adj[1].forms.accSg[challenge.object.gender], obj>>
      /\ challenge.adjTargets = "none" => challenge.latin = <<subj, verb, obj>>

\* C26's case: a challenge whose adjective agrees with a feminine object:
\* "bonam", the feminine accusative, stands before the object.
C26_Witness ==
  /\ challenge.adjTargets = "object"
  /\ challenge.object.gender = "f"
  /\ Len(challenge.latin) = 4
  /\ challenge.latin[3] = <<"b", "o", "n", "a", "m">>
  /\ challenge.latin[4] = challenge.object.forms.accSg

\* C27: in every generated challenge the subject noun and the object noun
\* have different identifiers.
C27_SubjectAndObjectDiffer == challenge.subject.id # challenge.object.id

\* C27's case: a challenge whose subject and object are two nouns of the same
\* gender, the friend and the king.
C27_Witness ==
  /\ challenge.subject.meaning = "friend"
  /\ challenge.object.meaning = "king"
  /\ challenge.subject.gender = challenge.object.gender

\* The decoy tiles offered.
OfferedDecoys == {t \in tiles : ~t.correct}

\* C28: every tile set holds one decoy for each slot of the sentence: the
\* subject in the accusative, the object in the nominative, the third-person
\* form of a verb other than the challenge's and, when there is an adjective,
\* the adjective in the opposite case for the gender of its target.
C28_OneDecoyPerSlot ==
  LET target   == IF challenge.adjTargets = "subject"
                  THEN challenge.subject ELSE challenge.object
      opposite == IF challenge.adjTargets = "subject" THEN "accSg" ELSE "nomSg"
      Decoy(id, text) == \E t \in OfferedDecoys : t.id = id /\ t.text = text
  IN  /\ Decoy(<<"d", "-", "s", "u", "b", "j", "-", "w", "r", "o", "n", "g">>,
               challenge.subject.forms.accSg)
      /\ Decoy(<<"d", "-", "o", "b", "j", "-", "w", "r", "o", "n", "g">>,
               challenge.object.forms.nomSg)
      /\ \E v \in Range(VERBS) :
           v.id # challenge.verb.id /\ Decoy(<<"d", "-", "v", "e", "r", "b">>, v.pres3s)
      /\ challenge.adj # <<>> =>
           Decoy(<<"d", "-", "a", "d", "j">>, challenge.adj[1].forms[opposite][target.gender])
      /\ Cardinality(OfferedDecoys) = Len(challenge.latin)

\* C28's case: the adjective agrees with a masculine subject ("bonus"), and
\* its decoy is the masculine accusative "bonum".
C28_Witness ==
  /\ challenge.adjTargets = "subject"
  /\ challenge.subject.gender = "m"
  /\ challenge.latin[1] = <<"b", "o", "n", "u", "s">>
  /\ \E t \in OfferedDecoys : t.text = <<"b", "o", "n", "u", "m">>
  /\ Cardinality(OfferedDecoys) = 4

\* C29: in every tile set the number of decoys offered is at least 10 minus
\* the number of correct tokens and at most the number of decoys available
\* (three, and one more with an adjective), and there are at most 10 tiles.
C29_DecoyCountBounds ==
  /\ Cardinality(OfferedDecoys) >= MaxTiles - Len(challenge.latin)
  /\ Cardinality(OfferedDecoys) <= 3 + (IF challenge.adj # <<>> THEN 1 ELSE 0)
  /\ Cardinality(tiles) <= MaxTiles

\* ------------------------------------------------- the play of one second

\* A round that the interval has ticked down to any second of its time; the
\* player then acts, and the timer does not tick again.
InitPlay ==
  \E m \in {"match", "sighting"}, d \in DifficultyKeys :
    \E sec \in 1..DIFFICULTY[d].time : MountedAt(m, d, EngineScope, sec)

NextPlay ==
  \/ \E id \in RoundItemIds : chooseLatin(id)
  \/ \E id \in RoundItemIds : chooseMeaning(id)
  \/ \E tile \in tiles : tapTile(tile)
  \/ FinishTimeoutFires
  \/ PopTimeoutFires

SpecPlay == InitPlay /\ [][NextPlay]_vars

\* C9: a submission judged correct increases the combo by exactly one, and a
\* submission judged incorrect sets it to zero, in both modes.
C9_ComboRule ==
  [][/\ verdict' = "correct" => combo' = combo + 1
     /\ verdict' = "incorrect" => combo' = 0]_vars

\* C9's case: an incorrect submission has just reset a combo that two
\* correct ones had raised.
C9_Witness == verdict = "incorrect" /\ combo = 0 /\ peakCombo >= 2


RECURSIVE SumOfAwards(_, _)
\* The sum over i = 1..N of 28 + clamp(floor(1.6 S), 0, 45) + clamp(7 i, 0, 70).
SumOfAwards(S, N) ==
  IF N = 0 THEN 0
  ELSE SumOfAwards(S, N - 1) + 28 + clamp((16 * S) \div 10, 0, 45) + clamp(7 * N, 0, 70)

\* Every correct action of the round so far is in the current run: in Match
\* doneIds holds one id for each, and a Sighting Log round accepts no action
\* after its first correct one.
RunFromZero == mode = "match" => Cardinality(doneIds) = combo

\* C10: with multiplier 1 and seconds-remaining fixed at S, the score after N
\* consecutive correct actions from combo 0 is the sum over i = 1..N of
\* 28 + clamp(floor(1.6 S), 0, 45) + clamp(7 i, 0, 70).
C10_ScoreOfRun ==
  (DIFFICULTY[difficultyKey].xpMult = 100 /\ RunFromZero) =>
    score = SumOfAwards(secondsLeft, combo)

\* C10's case: a run of three or more correct actions from combo 0, at
\* multiplier 1.
C10_Witness ==
  /\ DIFFICULTY[difficultyKey].xpMult = 100
  /\ RunFromZero
  /\ combo >= 3
  /\ score > 0

\* C24: an incorrect action, a wrong pair or a full but wrong sentence, awards
\* nothing and does not end the round: the score, the phase (active), the
\* seconds remaining, the resolved set and the persisted progress are as they
\* were, and no end of the round is scheduled or reported.
C24_IncorrectActionChangesNoProgress ==
  [][verdict' = "incorrect" =>
       /\ phase = "playing"
       /\ UNCHANGED <<score, phase, secondsLeft, doneIds, persisted, stored>>
       /\ UNCHANGED <<finishTimeouts, endCalls, lastEnd>>]_vars

\* C24's case: a wrong pair has just been judged in a Match round that has a
\* score and resolved items.
C24_Witness ==
  /\ verdict = "incorrect"
  /\ mode = "match"
  /\ phase = "playing"
  /\ score > 0
  /\ Cardinality(doneIds) >= 2
  /\ combo = 0

\* Taps alone can complete the round from an answer that has been filled: the
\* removal takes the last tile only and tapTile only appends, so the tiles
\* before the last slot stay, and a tile not among them must complete them to
\* the expected sentence.
CanStillComplete ==
  LET kept == SubSeq(answer, 1, Len(challenge.latin) - 1)
  IN  \E tile \in tiles :
        /\ \A i \in 1..Len(kept) : kept[i].id # tile.id
        /\ Judge(Append(kept, tile), challenge)

\* C25: in Sighting Log, after any incorrect submission and while time
\* remains, the player can still complete the round correctly by tile taps
\* alone, whichever slot held the wrong tile.
C25_RetryReachesCompletion ==
  (mode = "sighting" /\ phase = "playing" /\ verdict = "incorrect") => CanStillComplete

\* Once an incorrect submission has left a wrong tile before the last slot,
\* no later submission of the round is judged correct.
NoCompletionAfterEarlyWrongTile ==
  [][(mode = "sighting" /\ Len(answer) >= Len(challenge.latin) - 1 /\ ~CanStillComplete)
       => (verdict' # "correct" /\ ~CanStillComplete')]_vars

\* C14: every noun of the lexicon whose nominative singular and accusative
\* singular are both defined has an accusative that differs from its
\* nominative; so have the subject and the object of every challenge.
C14_AccusativeDiffersFromNominative ==
  \A noun \in Range(NOUNS) \cup {challenge.subject, challenge.object} :
    (nounForm(noun, "nomSg") # Undefined /\ nounForm(noun, "accSg") # Undefined) =>
      nounForm(noun, "accSg") # nounForm(noun, "nomSg")

\* C38: in every tile set no decoy tile has the surface text of a correct
\* tile, so a submitted sequence is judged correct only if every tile in it
\* is flagged correct.
C38_DecoyTextsDifferFromCorrect ==
  mode = "sighting" =>
    /\ \A d \in OfferedDecoys : \A c \in tiles \ OfferedDecoys : d.text # c.text
    /\ verdict = "correct" => \A i \in DOMAIN answer : answer[i].correct

\* The consequence alone: an answer judged correct holds correct tiles only.
\* It fails as well, for an answer that holds a decoy with the text of the
\* correct tile of its slot.
CorrectVerdictOnlyForCorrectTiles ==
  (mode = "sighting" /\ verdict = "correct") => \A i \in DOMAIN answer : answer[i].correct

\* ------------------------------------------------------- match rounds alone

\* Math.random's outcomes in SpecRound: a pool of seven items of every kind,
\* and shuffles that may move the elements at positions 2, 3 and 7 to the
\* front.
RoundScope ==
  [nouns |-> {"girl", "word"}, verbs |-> {"I love", "I fear"}, adjs |-> {"good"},
   swaps |-> {2, 3, 7}]

InitRound == \E d \in DifficultyKeys : Mounted("match", d, RoundScope)

\* Restart draws another round.
NextRound == MatchRestart

SpecRound == InitRound /\ [][NextRound]_vars

\* The number of pool items with the given id and Latin string.
PoolCount(id, latin) ==
  Cardinality({k \in DOMAIN POOL : POOL[k].id = id /\ POOL[k].latin = latin})

CaseSuffix(gramCase) ==
  IF gramCase = "nomSg" THEN <<"-", "n", "o", "m">> ELSE <<"-", "a", "c", "c">>

IsNonEmpty(text) == text # Undefined /\ Len(text) > 0

\* C21: every item of the pool, and so every item of a round, has a defined,
\* non-empty Latin string; the pool holds one item for the nominative and one
\* for the accusative of each noun, one for the third-person form of each
\* verb and one for the lemma of each adjective, except those whose string is
\* empty, and nothing else.
C21_PoolItemsHaveLatin ==
  /\ \A x \in Range(POOL) \cup Range(round.items) : IsNonEmpty(x.latin)
  /\ Range(round.items) \subseteq Range(POOL)
  /\ \A n \in Range(NOUNS) : \A c \in GramCases :
       PoolCount(n.id \o CaseSuffix(c), nounForm(n, c)) =
         IF IsNonEmpty(nounForm(n, c)) THEN 1 ELSE 0
  /\ \A v \in Range(VERBS) :
       PoolCount(v.id, v.pres3s) = IF IsNonEmpty(v.pres3s) THEN 1 ELSE 0
  /\ \A a \in Range(ADJECTIVES) :
       PoolCount(a.id, a.lemma) = IF IsNonEmpty(a.lemma) THEN 1 ELSE 0
  /\ Len(POOL) =
         Cardinality({<<i, c>> \in (DOMAIN NOUNS) \X GramCases :
                        IsNonEmpty(nounForm(NOUNS[i], c))})
       + Cardinality({i \in DOMAIN VERBS : IsNonEmpty(VERBS[i].pres3s)})
       + Cardinality({i \in DOMAIN ADJECTIVES : IsNonEmpty(ADJECTIVES[i].lemma)})

\* C21's case: a round of six items drawn from the pool holds a nominative,
\* an accusative, a verb and an adjective.
C21_Witness ==
  /\ Len(round.items) = 6
  /\ {"NOM", "ACC", "V", "ADJ"} \subseteq {round.items[i].tag : i \in DOMAIN round.items}

\* The column holds each of the ids once and nothing else.
IsPermutationOf(column, ids) ==
  /\ Len(column) = Len(ids)
  /\ Range(column) = Range(ids)
  /\ \A i, j \in DOMAIN column : i # j => column[i] # column[j]

\* C30: every Match round holds exactly roundSize items of the pool (4 at
\* easy, 5 at normal, 6 at hard), pairwise distinct, and the Latin column and
\* the meaning column are each a permutation of exactly those items' ids.
C30_RoundHoldsDistinctItems ==
  LET k == CASE difficultyKey = "easy" -> 4
             [] difficultyKey = "normal" -> 5
             [] difficultyKey = "hard" -> 6
  IN  /\ roundSize = k
      /\ Len(round.items) = k
      /\ Range(round.items) \subseteq Range(POOL)
      /\ \A i, j \in DOMAIN round.items :
           i # j => /\ round.items[i] # round.items[j]
                    /\ round.items[i].id # round.items[j].id
      /\ IsPermutationOf(round.left, Ids(round.items))
      /\ IsPermutationOf(round.right, Ids(round.items))

\* C30's case: a round of six items whose two columns are in different
\* orders, neither of them the order of the items.
C30_Witness ==
  /\ Len(round.items) = 6
  /\ round.left # Ids(round.items)
  /\ round.right # Ids(round.items)
  /\ round.left # round.right

\* ------------------------------------------------------------ a new round

\* The player plays, in the last seconds of a round, until a round has ended
\* for the first time; Next and Restart are pressed at any time after that
\* too, and the timer and the timeouts run as in the engine.
Plays == UserActive /\ lastEnd = <<>>

NextRounds ==
  \/ Tick
  \/ \E id \in RoundItemIds : Plays /\ chooseLatin(id)
  \/ \E id \in RoundItemIds : Plays /\ chooseMeaning(id)
  \/ MatchNextRound
  \/ CanRestart /\ MatchRestart
  \/ \E tile \in tiles : Plays /\ tapTile(tile)
  \/ SightingNextRound
  \/ CanRestart /\ SightingRestart
  \/ FinishTimeoutFires
  \/ PopTimeoutFires

SpecRounds == Init /\ [][NextRounds]_vars

\* The state of a round that has just begun: the full time of the difficulty,
\* the timer running, no score, no combo, nothing resolved, nothing selected,
\* an empty answer and, in Sighting Log, a challenge of makeChallenge with
\* tiles of makeTiles.
FreshRound ==
  /\ phase' = "playing"
  /\ timerRef' # 0
  /\ secondsLeft' = DIFFICULTY[difficultyKey].time
  /\ score' = 0
  /\ combo' = 0
  /\ doneIds' = {}
  /\ selectedLatin' = <<>>
  /\ answer' = <<>>
  /\ mode = "sighting" =>
       /\ challenge' \in makeChallenge(sentenceLen, rnd)
       /\ tiles' \in makeTiles(challenge', rnd)

\* C17: Next, pressed when a round has ended, begins a round: the phase is
\* active again with a generated challenge or sample, the seconds remaining
\* are the total of the difficulty, the score and the combo are 0, and the
\* resolved set and the partial answer are empty.
C17_AdvanceBeginsFreshRound ==
  [][(phase = "paused" /\ roundGen' # roundGen) => FreshRound]_vars

\* C17's case: Next has begun a second round after a first one that scored.
C17_Witness ==
  /\ roundGen = 2
  /\ phase = "playing"
  /\ secondsLeft = totalTime
  /\ lastEnd # <<>>
  /\ lastEnd[1].round = 1
  /\ lastEnd[1].score > 0
  /\ score = 0

\* C18: Restart, pressed while a round is active, yields the state Next
\* yields (full time, score 0, combo 0, nothing resolved, an empty answer);
\* the step calls onRoundEnd for no round and leaves lifetime XP, the best
\* score, the best combo and the unlocked cards as they were.
C18_RestartDiscardsProgress ==
  [][(phase = "playing" /\ roundGen' # roundGen) =>
       /\ FreshRound
       /\ SubSeq(endCalls', 1, Len(endCalls)) = endCalls
       /\ lastEnd' = lastEnd
       /\ persisted'.best = persisted.best
       /\ persisted'.collection = persisted.collection
       /\ stored' = stored]_vars

\* C18's case: a second round that Restart began while the first was active:
\* no round has ended, nothing was awarded, and the interval of the first
\* round is the one that runs.
C18_Witness ==
  /\ roundGen = 2
  /\ phase = "playing"
  /\ timerRef = 1
  /\ secondsLeft = totalTime
  /\ endCalls = <<0, 0>>
  /\ lastEnd = <<>>
  /\ persisted.best.totalXP = 0

\* The total time of the round's difficulty, in seconds.
DifficultyTotal ==
  CASE difficultyKey = "easy" -> 28
    [] difficultyKey = "normal" -> 22
    [] difficultyKey = "hard" -> 18

CreatedActive == phase = "playing" /\ secondsLeft = DifficultyTotal

\* C32: every round is created, by Start, Next and Restart, in phase Active
\* with seconds-remaining equal to the total of the difficulty (28, 22, 18);
\* seconds-remaining changes within a round only by a tick of an Active
\* round, which decrements it by exactly 1; and it is never below 0 nor above
\* the total.
C32_SecondsWithinDifficultyTotal ==
  /\ CreatedActive
  /\ [][roundGen' # roundGen => CreatedActive']_vars
  /\ [][(roundGen' = roundGen /\ secondsLeft' # secondsLeft)
         => (phase = "playing" /\ secondsLeft' = secondsLeft - 1)]_vars
  /\ [](0 <= secondsLeft /\ secondsLeft <= DifficultyTotal)

\* C32's case: a second round, begun by Next or Restart, has run from its
\* total down to zero and ended by time.
C32_Witness ==
  /\ roundGen = 2
  /\ secondsLeft = 0
  /\ phase = "paused"
  /\ lastEnd # <<>>
  /\ lastEnd[1].round = 2
  /\ lastEnd[1].reason = "Time!"

\* ------------------------------------------------- input the handlers ignore

\* A handler that returns before its first setter: no state of the program
\* changes; the history records that the input was ignored.
Returned ==
  /\ verdict' = "ignored"
  /\ UNCHANGED <<rnd, app, mode, persisted, stored, roundGen, phase, secondsLeft, combo, score,
                 timerRef, matchVars, sightingVars, finishTimeouts, popTimeouts,
                 endCalls, lastEnd, peakCombo>>

\* The early returns of chooseLatin.
chooseLatinReturns(id) ==
  /\ mode = "match"
  /\ phase # "playing" \/ id \in doneIds
  /\ Returned

\* The early returns of chooseMeaning.
chooseMeaningReturns(id) ==
  /\ mode = "match"
  /\ phase # "playing" \/ selectedLatin = <<>> \/ id \in doneIds
  /\ Returned

\* The early returns of tapTile.
tapTileReturns(tile) ==
  /\ mode = "sighting"
  /\ \/ phase # "playing"
     \/ Len(answer) >= Len(challenge.latin)
     \/ \E i \in 1..Len(answer) : answer[i].id = tile.id
  /\ Returned

\* A call of each handler, whatever the state it is called in.
chooseLatinCall(id) == chooseLatin(id) \/ chooseLatinReturns(id)

chooseMeaningCall(id) == chooseMeaning(id) \/ chooseMeaningReturns(id)

tapTileCall(tile) == tapTile(tile) \/ tapTileReturns(tile)

\* A round in its last seconds: the player calls the handlers in every
\* state, the round's timeouts run, and the timer ticks until the time is up.
InitInput ==
  \E m \in {"match", "sighting"}, d \in DifficultyKeys :
    \E sec \in 1..ActiveSeconds : MountedAt(m, d, EngineScope, sec)

NextInput ==
  \/ Tick
  \/ \E id \in RoundItemIds : chooseLatinCall(id)
  \/ \E id \in RoundItemIds : chooseMeaningCall(id)
  \/ \E tile \in tiles : tapTileCall(tile)
  \/ FinishTimeoutFires
  \/ PopTimeoutFires

SpecInput == InitInput /\ [][NextInput]_vars

\* The state of a round and the persisted progress.
RoundAndProgress ==
  <<phase, secondsLeft, combo, score, timerRef, roundGen, matchVars, sightingVars,
    finishTimeouts, popTimeouts, persisted, stored>>

\* C16: an invalid action is a no-op. While the round has ended, a selection
\* or a tile tap changes nothing; while it is active, selecting a resolved
\* item, submitting a meaning with no Latin item selected, tapping a tile
\* that is in the answer and tapping when the answer is full leave the round
\* state and the persisted progress unchanged.
C16_InvalidInputIgnored ==
  [][/\ \A id \in RoundItemIds :
          /\ ((phase = "paused" \/ id \in doneIds) /\ chooseLatinCall(id))
                => UNCHANGED RoundAndProgress
          /\ ((phase = "paused" \/ id \in doneIds \/ selectedLatin = <<>>)
                 /\ chooseMeaningCall(id))
                => UNCHANGED RoundAndProgress
     /\ \A tile \in tiles :
          ((phase = "paused" \/ tile \in Range(answer)
              \/ Len(answer) >= Len(challenge.latin)) /\ tapTileCall(tile))
            => UNCHANGED RoundAndProgress]_vars

\* C16's case: a tap was ignored while the round is active and the answer is
\* full, its wrong last tile not yet removed.
C16_Witness ==
  /\ verdict = "ignored"
  /\ mode = "sighting"
  /\ phase = "playing"
  /\ Len(answer) = Len(challenge.latin)
  /\ popTimeouts # <<>>

\* C19: after an incorrect full submission in Sighting Log the removal is
\* pending, and when it runs the partial answer, still the full answer that
\* was judged, loses exactly its last tile and keeps the earlier tiles in
\* order; popLast leaves an empty sequence empty.
C19_WrongSubmissionLosesLastTile ==
  [][/\ (verdict' = "incorrect" /\ mode = "sighting") =>
          /\ answer' = Append(answer, answer'[Len(answer')])
          /\ Len(answer') = Len(challenge.latin)
          /\ popTimeouts' = Append(popTimeouts, [round |-> roundGen, run |-> app.runId, ticked |-> FALSE])
     /\ Len(popTimeouts') < Len(popTimeouts) =>
          /\ Len(answer) = Len(challenge.latin)
          /\ Len(answer') = Len(answer) - 1
          /\ \A i \in 1..Len(answer') : answer'[i] = answer[i]
          /\ popLast(<<>>) = <<>>
          /\ popLast(answer') = SubSeq(answer, 1, Len(answer) - 2)]_vars

\* C19's case: a full answer of four tiles has been judged incorrect and its
\* last tile is about to be removed.
C19_Witness ==
  /\ verdict = "incorrect"
  /\ mode = "sighting"
  /\ Len(answer) = 4
  /\ Len(popTimeouts) = 1
  /\ phase = "playing"

\* --------------------------------------------- Sighting Log without ticks

\* A Sighting Log round in its last seconds: the player taps tiles and
\* presses Restart and Next at any moment, the timeouts run, and the timer
\* does not tick.
InitSighting ==
  \E d \in DifficultyKeys :
    \E sec \in 1..ActiveSeconds : MountedAt("sighting", d, EngineScope, sec)

NextSighting ==
  \/ \E tile \in tiles : tapTile(tile)
  \/ SightingRestart
  \/ SightingNextRound
  \/ FinishTimeoutFires
  \/ PopTimeoutFires

SpecSighting == InitSighting /\ [][NextSighting]_vars

\* C23: the removal scheduled by an incorrect submission alters the answer of
\* the round that scheduled it only: when it runs after a restart, the answer
\* of the new round stays as it is.
C23_RemovalActsOnOwnRound ==
  [][(Len(popTimeouts') < Len(popTimeouts) /\ Head(popTimeouts).round # roundGen) =>
       answer' = answer]_vars

\* C37: in Sighting Log the combo of a round never exceeds 1, and the
\* comboMax a round reports is 0 or 1.
C37_SightingComboAtMostOne ==
  mode = "sighting" =>
    /\ combo <= 1
    /\ \A e \in Range(lastEnd) : e.comboMax \in {0, 1}

\* In the first round of a game, which no removal of an earlier round
\* reaches, the combo is at most 1.
ComboAtMostOneInFirstRound == (mode = "sighting" /\ roundGen = 1) => combo <= 1

\* C39: the tile ids of a round's tile set are pairwise distinct (the tiles
\* built, a correct one and a decoy for each token, have as many ids), and in
\* every reachable Sighting Log state the partial answer holds no tile id
\* twice and is never longer than the expected token sequence.
C39_DistinctTilesAndBoundedAnswer ==
  mode = "sighting" =>
    /\ \A t, u \in tiles : t.id = u.id => t = u
    /\ Cardinality({t.id : t \in tiles}) = 2 * Len(challenge.latin)
    /\ \A i, j \in DOMAIN answer : i # j => answer[i].id # answer[j].id
    /\ Len(answer) <= Len(challenge.latin)

\* C39's case: in a second round, after a removal, a full answer of four
\* tiles has been submitted and judged.
C39_Witness ==
  /\ mode = "sighting"
  /\ roundGen = 2
  /\ Len(challenge.latin) = 4
  /\ Len(answer) = 4
  /\ verdict = "incorrect"
  /\ popTimeouts # <<>>
  /\ Cardinality(tiles) = 8

\* ------------------------------------------------- the mode Select and Start

\* App's runId in a behaviour of SpecApp.
MaxRunId == 4

\* The game component is unmounted: the cleanup of the effect on [phase]
\* clears the interval, and the component's state is gone.  Its pending
\* setTimeout callbacks are not cleared.
GameUnmounted ==
  /\ mode' = "none"
  /\ phase' = "paused"
  /\ secondsLeft' = 0
  /\ combo' = 0
  /\ score' = 0
  /\ timerRef' = 0
  /\ round' = NoRound
  /\ selectedLatin' = <<>>
  /\ doneIds' = {}
  /\ challenge' = NoChallenge
  /\ tiles' = {}
  /\ answer' = <<>>
  /\ peakCombo' = 0

\* The mode Select: setMode(v), setStarted(false), setRunId(k => k + 1).
SelectMode(v) ==
  /\ app.runId < MaxRunId
  /\ app' = [mode |-> v, started |-> FALSE, runId |-> app.runId + 1]
  /\ GameUnmounted
  /\ verdict' = "none"
  /\ UNCHANGED <<rnd, persisted, stored, roundGen, finishTimeouts, popTimeouts, endCalls,
                 lastEnd>>

\* The Start button: setRunId(k => k + 1), setStarted(true).  The key of the
\* game component changes, so a mounted one is unmounted and a new one is
\* mounted, with its useState initialisers and its timer.
Start ==
  /\ app.mode # "none"
  /\ app.runId < MaxRunId
  /\ roundGen < MaxRounds
  /\ app' = [app EXCEPT !.started = TRUE, !.runId = @ + 1]
  /\ mode' = app.mode
  /\ roundGen' = roundGen + 1
  /\ endCalls' = Append(endCalls, 0)
  /\ phase' = "playing"
  /\ secondsLeft' = totalTime
  /\ combo' = 0
  /\ score' = 0
  /\ timerRef' = roundGen + 1
  /\ IF app.mode = "match"
     THEN /\ round' \in makeRound(roundSize, rnd)
          /\ challenge' = NoChallenge
          /\ tiles' = {}
     ELSE /\ round' = NoRound
          /\ \E ch \in makeChallenge(sentenceLen, rnd) :
               /\ challenge' = ch
               /\ tiles' \in makeTiles(ch, rnd)
  /\ selectedLatin' = <<>>
  /\ doneIds' = {}
  /\ answer' = <<>>
  /\ peakCombo' = 0
  /\ verdict' = "none"
  /\ UNCHANGED <<rnd, persisted, stored, finishTimeouts, popTimeouts, lastEnd>>

\* The player plays the round of the first game.
PlaysFirst == UserActive /\ roundGen = 1

\* One game is mounted and its round is in its last seconds; the player
\* plays that round, changes the mode or presses Start at any time, and the
\* timer and the timeouts run.  Each game has one round: Next and Restart
\* are not pressed.
NextApp ==
  \/ Tick
  \/ \E id \in RoundItemIds : PlaysFirst /\ chooseLatin(id)
  \/ \E id \in RoundItemIds : PlaysFirst /\ chooseMeaning(id)
  \/ \E tile \in tiles : PlaysFirst /\ tapTile(tile)
  \/ FinishTimeoutFires
  \/ PopTimeoutFires
  \/ \E v \in {"match", "sighting"} : SelectMode(v)
  \/ Start

SpecApp == InitInput /\ [][NextApp]_vars

\* An onRoundEnd call is made in the step.
RoundEndCalled == Len(endCalls') = Len(endCalls) /\ endCalls' # endCalls

\* The mode Select and Start leave no timer but that of the game they mount,
\* and Start begins from a fresh round.
CancelStopsTimerAndStartIsFresh ==
  [][app'.runId # app.runId =>
       /\ timerRef' = (IF app'.started THEN roundGen' ELSE 0)
       /\ app'.started => FreshRound /\ roundGen' # roundGen]_vars

\* C34: changing the mode, or pressing Start again, while a round is in
\* progress cancels the round: the timer of the old game is stopped, the
\* cancelled round never afterwards calls onRoundEnd or changes the persisted
\* progress, and the next Start begins from a fresh round.
C34_CancelledRoundStaysSilent ==
  /\ CancelStopsTimerAndStartIsFresh
  /\ [][(RoundEndCalled \/ persisted' # persisted) =>
         /\ app.started
         /\ lastEnd'[1].round = roundGen]_vars

\* ------------------------------------------------------- persistence alone

\* The values a stored field may have: none, a well-formed one, one of
\* another type.
NameValues == {JUndefined, JStr("Ada"), JNum(7)}

DifficultyValues == {JUndefined, JStr("hard"), JNull}

HighScoreValues == {JUndefined, JNum(120)}

BestStreakValues == {JUndefined, JNum(3)}

TotalXPValues == {JUndefined, JNum(500), JStr("lots")}

UnlockedValues == {JUndefined, JArr(<<JStr("1")>>), JNull}

SoundValues == {JUndefined, JBool(FALSE), JStr("off")}

\* The values a stored section may have that are no objects.
OtherValues == {JUndefined, JNull, JNum(7)}

\* The values JSON.parse may return for the stored text.
ParsedValues ==
  {JNull, JNum(7), JBool(TRUE), JArr(<<JNum(7)>>)}
  \cup
  {JsonValue(JObj([player |-> p, best |-> b, collection |-> c, settings |-> t])) :
     p \in OtherValues \cup {JObj([name |-> n, difficulty |-> d]) :
                               n \in NameValues, d \in DifficultyValues},
     b \in OtherValues \cup {JObj([highScore |-> h, bestStreak |-> k, totalXP |-> x]) :
                               h \in HighScoreValues, k \in BestStreakValues,
                               x \in TotalXPValues},
     c \in OtherValues \cup {JObj([unlocked |-> u]) : u \in UnlockedValues},
     t \in OtherValues \cup {JObj([sound |-> o]) : o \in SoundValues}}

\* What localStorage may hold when the page is opened.
StoredValues ==
  {<<>>, <<NotJson("")>>, <<NotJson("{oops")>>} \cup {<<JsonText(v)>> : v \in ParsedValues}

\* The page is not open: App is not constructed.
NotLoaded == [notLoaded |-> TRUE]

InitLoad ==
  /\ stored \in StoredValues
  /\ persisted = NotLoaded
  /\ NotStarted

\* The page is opened, or opened again: useState(() => loadState()), then
\* the effect on [persisted], saveState(persisted).  When loadState throws
\* nothing is rendered and nothing is saved.
AppLoad ==
  /\ persisted' = loadState(stored)
  /\ stored' = IF IsA(persisted', "ok") THEN saveState(persisted'.ok) ELSE stored
  /\ UNCHANGED <<rnd, app, mode, roundGen, phase, secondsLeft, combo, score, timerRef,
                 matchVars, sightingVars, finishTimeouts, popTimeouts, endCalls,
                 lastEnd, peakCombo, verdict>>

NextLoad == AppLoad

SpecLoad == InitLoad /\ [][NextLoad]_vars

\* The fields of a PersistedState, each with the test of a well-formed value.
FieldPaths ==
  {<<"player", "name">>, <<"player", "difficulty">>, <<"best", "highScore">>,
   <<"best", "bestStreak">>, <<"best", "totalXP">>, <<"collection", "unlocked">>,
   <<"settings", "sound">>}

FieldOf(v, path) == Get(Get(v, path[1]), path[2])

IsWellFormedField(path, v) ==
  IF path = <<"player", "name">> THEN IsA(v, "str")
  ELSE IF path = <<"player", "difficulty">> THEN IsA(v, "str") /\ v.str \in DifficultyKeys
  ELSE IF path[1] = "best" THEN IsA(v, "num") /\ v.num \in Nat
  ELSE IF path = <<"collection", "unlocked">>
       THEN IsA(v, "arr") /\ \A i \in 1..Len(v.arr) : IsA(v.arr[i], "str")
  ELSE IsA(v, "bool")

\* A complete well-formed record.
WellFormed(v) ==
  /\ IsA(v, "obj")
  /\ \A path \in FieldPaths :
       /\ IsA(Get(v, path[1]), "obj")
       /\ IsWellFormedField(path, FieldOf(v, path))

\* The value JSON.parse returns for the stored text, undefined if none.
ParsedOf(raw) ==
  IF raw # <<>> /\ IsA(raw[1], "json") THEN raw[1].json ELSE JUndefined

\* C11: loadState returns a complete well-formed record for every stored
\* value (absent, unparseable, JSON that is not an object such as null, an
\* object with missing or wrong-typed fields), and loading never fails.
C11_LoadIsTotalAndWellFormed ==
  persisted # NotLoaded => IsA(persisted, "ok") /\ WellFormed(persisted.ok)

\* The stored record that holds best.totalXP = 500 and nothing else.
OnlyTotalXP == <<JsonText(JObj([best |-> JObj([totalXP |-> JNum(500)])]))>>

\* C12: loading a stored record that holds only best.totalXP = 500 yields
\* totalXP = 500 and the default of every other field; in general a field
\* that is present and well-formed is preserved, an absent one defaulted.
C12_PresentKeptAbsentDefaulted ==
  [][(persisted = NotLoaded /\ IsA(persisted', "ok")) =>
       /\ \A path \in FieldPaths :
            LET was == FieldOf(ParsedOf(stored), path)
                is  == FieldOf(persisted'.ok, path)
            IN  /\ was = JUndefined => is = FieldOf(JsBase, path)
                /\ IsWellFormedField(path, was) => is = was
       /\ stored = OnlyTotalXP =>
            /\ WellFormed(persisted'.ok)
            /\ FromJs(persisted'.ok) = [BasePersisted EXCEPT !.best.totalXP = 500]]_vars

\* C12's case: the record loaded has totalXP = 500 and the default of every
\* other field.
C12_Witness ==
  /\ IsA(persisted, "ok")
  /\ WellFormed(persisted.ok)
  /\ FromJs(persisted.ok) = [BasePersisted EXCEPT !.best.totalXP = 500]

\* C13: for every well-formed stored record r, loading returns r and saving
\* what was loaded leaves the stored record as it was; and loading what
\* saveState wrote for a well-formed record returns that record.
C13_RoundTrip ==
  [][/\ WellFormed(ParsedOf(stored)) =>
          /\ persisted' = [ok |-> ParsedOf(stored)]
          /\ stored' = stored
     /\ (IsA(persisted', "ok") /\ WellFormed(persisted'.ok)) =>
          loadState(saveState(persisted'.ok)) = persisted']_vars

\* C13's case: a well-formed record with a field that is falsy and is not
\* its default (sound off), loaded and saved.
C13_Witness ==
  /\ IsA(persisted, "ok")
  /\ WellFormed(persisted.ok)
  /\ stored = saveState(persisted.ok)
  /\ ~FromJs(persisted.ok).settings.sound
  /\ FromJs(persisted.ok).best.totalXP = 500

====
